---- MODULE Spec2Model ----
(***************************************************************************)
(* ProblemService of lyrio (src/unnamed/part_000): the permission          *)
(* resolver, the statement transactions, the display id / publicness       *)
(* mutations and the problem file attachments, as a state machine over the *)
(* relational store the service shares with its concurrent callers.        *)
(***************************************************************************)
EXTENDS Integers, Sequences, FiniteSets, TLC

(***************************************************************************)
(* Bounds of the model.                                                    *)
(***************************************************************************)
MaxUserId == 2
MaxAclGroups == 1
MaxProblems == 2
MaxDisplayId == 1
MaxCalls == 2

(***************************************************************************)
(* Enumerations of the source.                                             *)
(***************************************************************************)
ProblemPermissionType == {"VIEW", "MODIFY", "MANAGE_PERMISSION", "MANAGE_PUBLICNESS", "DELETE"}

READ == 1
WRITE == 2
ProblemPermissionLevel == {READ, WRITE}
\* The levels a subject may hold on a problem; 0 stands for no grant at all.
AclLevels == {0} \cup ProblemPermissionLevel

UserIds == 1..MaxUserId
NoUser == [id |-> 0, isAdmin |-> FALSE]
UserEntities == [id : UserIds, isAdmin : BOOLEAN]

(***************************************************************************)
(* State of a pending userHasPermission call: its arguments, what the      *)
(* collaborators it consults hold, and its result.                         *)
(***************************************************************************)
VARIABLES permIn, permOut

permVars == <<permIn, permOut>>

(***************************************************************************)
(* The relational store shared by all callers (db: the committed rows),    *)
(* the auto-increment counter of the problem table, the calls of the       *)
(* service in flight, each with its local variables and the writes of its  *)
(* open transaction, and the number of calls made so far.                  *)
(***************************************************************************)
VARIABLES db, autoInc, calls, started

storeVars == <<db, autoInc, calls, started>>
vars == <<permIn, permOut, db, autoInc, calls, started>>

MaxOf(S) == IF S = {} THEN 0 ELSE CHOOSE x \in S : \A y \in S : y <= x

\* UserPrivilegeService.userHasPrivilege(user, MANAGE_PROBLEM)
userHasPrivilege(in) == in.user.id \in in.privileged

\* PermissionService.userOrItsGroupsHavePermission(user, problem.id, PROBLEM, level):
\* the highest level granted to the user directly or to one of its groups
\* is at least the required one.
userOrItsGroupsHavePermission(in, level) ==
    MaxOf({in.aclUser} \cup {in.aclGroups[g] : g \in DOMAIN in.aclGroups}) >= level

userHasPermissionMissingOwnerFlag(in, type) ==
    LET user == in.user
        problem == in.problem
        preference == in.preference
    IN  CASE type = "VIEW" ->
               IF problem.isPublic THEN TRUE
               ELSE IF user = NoUser THEN FALSE
               ELSE IF user.id = problem.ownerId THEN TRUE
               ELSE IF user.isAdmin THEN TRUE
               ELSE IF userHasPrivilege(in) THEN TRUE
               ELSE userOrItsGroupsHavePermission(in, READ)
          [] type = "MODIFY" ->
               IF user = NoUser THEN FALSE
               ELSE IF user.id = problem.ownerId THEN TRUE
               ELSE IF user.isAdmin THEN TRUE
               ELSE IF userHasPrivilege(in) THEN TRUE
               ELSE userOrItsGroupsHavePermission(in, WRITE)
          [] type = "MANAGE_PERMISSION" ->
               IF user = NoUser THEN FALSE
               ELSE IF user.id = problem.ownerId THEN TRUE
               ELSE IF user.isAdmin THEN TRUE
               ELSE IF userHasPrivilege(in) THEN TRUE
               ELSE FALSE
          [] type = "MANAGE_PUBLICNESS" ->
               IF user = NoUser THEN FALSE
               ELSE IF user.isAdmin THEN TRUE
               ELSE IF userHasPrivilege(in) THEN TRUE
               ELSE FALSE
          [] type = "DELETE" ->
               IF user = NoUser THEN FALSE
               ELSE IF user.id = problem.ownerId /\ preference.allowOwnerDeleteProblem THEN TRUE
               ELSE IF user.isAdmin THEN TRUE
               ELSE IF userHasPrivilege(in) THEN TRUE
               ELSE FALSE

userHasPermissionOwnerPublicness(in, type) ==
    LET user == in.user
        problem == in.problem
        preference == in.preference
    IN  CASE type = "VIEW" ->
               IF problem.isPublic THEN TRUE
               ELSE IF user = NoUser THEN FALSE
               ELSE IF user.id = problem.ownerId THEN TRUE
               ELSE IF user.isAdmin THEN TRUE
               ELSE IF userHasPrivilege(in) THEN TRUE
               ELSE userOrItsGroupsHavePermission(in, READ)
          [] type = "MODIFY" ->
               IF user = NoUser THEN FALSE
               ELSE IF user.id = problem.ownerId THEN TRUE
               ELSE IF user.isAdmin THEN TRUE
               ELSE IF userHasPrivilege(in) THEN TRUE
               ELSE userOrItsGroupsHavePermission(in, WRITE)
          [] type = "MANAGE_PERMISSION" ->
               IF user = NoUser THEN FALSE
               ELSE IF user.id = problem.ownerId /\ preference.allowOwnerManageProblemPermission THEN TRUE
               ELSE IF user.isAdmin THEN TRUE
               ELSE IF userHasPrivilege(in) THEN TRUE
               ELSE FALSE
          [] type = "MANAGE_PUBLICNESS" ->
               IF user = NoUser THEN FALSE
               ELSE IF user.id = problem.ownerId THEN TRUE
               ELSE IF user.isAdmin THEN TRUE
               ELSE IF userHasPrivilege(in) THEN TRUE
               ELSE FALSE
          [] type = "DELETE" ->
               IF user = NoUser THEN FALSE
               ELSE IF user.id = problem.ownerId /\ preference.allowOwnerDeleteProblem THEN TRUE
               ELSE IF user.isAdmin THEN TRUE
               ELSE IF userHasPrivilege(in) THEN TRUE
               ELSE FALSE

userHasPermissionModifyNoAdmin(in, type) ==
    LET user == in.user
        problem == in.problem
        preference == in.preference
    IN  CASE type = "VIEW" ->
               IF problem.isPublic THEN TRUE
               ELSE IF user = NoUser THEN FALSE
               ELSE IF user.id = problem.ownerId THEN TRUE
               ELSE IF user.isAdmin THEN TRUE
               ELSE IF userHasPrivilege(in) THEN TRUE
               ELSE userOrItsGroupsHavePermission(in, READ)
          [] type = "MODIFY" ->
               IF user = NoUser THEN FALSE
               ELSE IF user.id = problem.ownerId THEN TRUE
               ELSE IF userHasPrivilege(in) THEN TRUE
               ELSE userOrItsGroupsHavePermission(in, WRITE)
          [] type = "MANAGE_PERMISSION" ->
               IF user = NoUser THEN FALSE
               ELSE IF user.id = problem.ownerId /\ preference.allowOwnerManageProblemPermission THEN TRUE
               ELSE IF user.isAdmin THEN TRUE
               ELSE IF userHasPrivilege(in) THEN TRUE
               ELSE FALSE
          [] type = "MANAGE_PUBLICNESS" ->
               IF user = NoUser THEN FALSE
               ELSE IF user.isAdmin THEN TRUE
               ELSE IF userHasPrivilege(in) THEN TRUE
               ELSE FALSE
          [] type = "DELETE" ->
               IF user = NoUser THEN FALSE
               ELSE IF user.id = problem.ownerId /\ preference.allowOwnerDeleteProblem THEN TRUE
               ELSE IF user.isAdmin THEN TRUE
               ELSE IF userHasPrivilege(in) THEN TRUE
               ELSE FALSE

userHasPermissionViewNoPrivilege(in, type) ==
    LET user == in.user
        problem == in.problem
        preference == in.preference
    IN  CASE type = "VIEW" ->
               IF problem.isPublic THEN TRUE
               ELSE IF user = NoUser THEN FALSE
               ELSE IF user.id = problem.ownerId THEN TRUE
               ELSE IF user.isAdmin THEN TRUE
               ELSE userOrItsGroupsHavePermission(in, READ)
          [] type = "MODIFY" ->
               IF user = NoUser THEN FALSE
               ELSE IF user.id = problem.ownerId THEN TRUE
               ELSE IF user.isAdmin THEN TRUE
               ELSE IF userHasPrivilege(in) THEN TRUE
               ELSE userOrItsGroupsHavePermission(in, WRITE)
          [] type = "MANAGE_PERMISSION" ->
               IF user = NoUser THEN FALSE
               ELSE IF user.id = problem.ownerId /\ preference.allowOwnerManageProblemPermission THEN TRUE
               ELSE IF user.isAdmin THEN TRUE
               ELSE IF userHasPrivilege(in) THEN TRUE
               ELSE FALSE
          [] type = "MANAGE_PUBLICNESS" ->
               IF user = NoUser THEN FALSE
               ELSE IF user.isAdmin THEN TRUE
               ELSE IF userHasPrivilege(in) THEN TRUE
               ELSE FALSE
          [] type = "DELETE" ->
               IF user = NoUser THEN FALSE
               ELSE IF user.id = problem.ownerId /\ preference.allowOwnerDeleteProblem THEN TRUE
               ELSE IF user.isAdmin THEN TRUE
               ELSE IF userHasPrivilege(in) THEN TRUE
               ELSE FALSE

\* ProblemService.userHasPermission(user, problem, type)
userHasPermission(in, type) ==
    LET user == in.user
        problem == in.problem
        preference == in.preference
    IN  CASE type = "VIEW" ->
               IF problem.isPublic THEN TRUE
               ELSE IF user = NoUser THEN FALSE
               ELSE IF user.id = problem.ownerId THEN TRUE
               ELSE IF user.isAdmin THEN TRUE
               ELSE IF userHasPrivilege(in) THEN TRUE
               ELSE userOrItsGroupsHavePermission(in, READ)
          [] type = "MODIFY" ->
               IF user = NoUser THEN FALSE
               ELSE IF user.id = problem.ownerId THEN TRUE
               ELSE IF user.isAdmin THEN TRUE
               ELSE IF userHasPrivilege(in) THEN TRUE
               ELSE userOrItsGroupsHavePermission(in, WRITE)
          [] type = "MANAGE_PERMISSION" ->
               IF user = NoUser THEN FALSE
               ELSE IF user.id = problem.ownerId /\ preference.allowOwnerManageProblemPermission THEN TRUE
               ELSE IF user.isAdmin THEN TRUE
               ELSE IF userHasPrivilege(in) THEN TRUE
               ELSE FALSE
          [] type = "MANAGE_PUBLICNESS" ->
               IF user = NoUser THEN FALSE
               ELSE IF user.isAdmin THEN TRUE
               ELSE IF userHasPrivilege(in) THEN TRUE
               ELSE FALSE
          [] type = "DELETE" ->
               IF user = NoUser THEN FALSE
               ELSE IF user.id = problem.ownerId /\ preference.allowOwnerDeleteProblem THEN TRUE
               ELSE IF user.isAdmin THEN TRUE
               ELSE IF userHasPrivilege(in) THEN TRUE
               ELSE FALSE

PermInputs ==
    [ user : {NoUser} \cup UserEntities,
      problem : [ownerId : UserIds, isPublic : BOOLEAN],
      privileged : SUBSET UserIds,
      aclUser : AclLevels,
      aclGroups : [1..MaxAclGroups -> AclLevels],
      preference : [allowOwnerManageProblemPermission : BOOLEAN,
                    allowOwnerDeleteProblem : BOOLEAN],
      type : ProblemPermissionType ]


\* One call of userHasPermission runs to its return value.
Resolve ==
    /\ permOut = "pending"
    /\ permOut' = IF userHasPermission(permIn, permIn.type) THEN "allow" ELSE "deny"
    /\ UNCHANGED <<permIn, storeVars>>

(***************************************************************************)
(* Values of the store.                                                    *)
(***************************************************************************)
\* problem.displayId = null
NULL == -1

ProblemIds == 1..MaxProblems
Calls == 1..MaxCalls
DisplayIds == 1..MaxDisplayId
Locales == {"en", "zh"}
ProblemTypes == {"TRADITIONAL"}
TagIds == {1, 2}
Hashes == {"h1", "h2"}
ProblemFileTypes == {"TestData"}
Filenames == {"a", "b"}
LocalizedContentTypes == {"PROBLEM_TITLE", "PROBLEM_CONTENT"}

\* A row or field that does not exist / a null field of a request.
Absent == "<absent>"
Null == "<null>"
NoRow == [id |-> 0]

LocalizedKeys == ProblemIds \X LocalizedContentTypes \X Locales
ProblemFileKeys == ProblemIds \X ProblemFileTypes \X Filenames

EmptyDb ==
    [ problem |-> [p \in ProblemIds |-> NoRow],
      judgeInfo |-> [p \in ProblemIds |-> Absent],
      sample |-> [p \in ProblemIds |-> Absent],
      localized |-> [k \in LocalizedKeys |-> Absent],
      tagMap |-> {},
      file |-> [h \in Hashes |-> [exists |-> FALSE, referenceCount |-> 0]],
      problemFile |-> [k \in ProblemFileKeys |-> Absent] ]

NoCall ==
    [ op |-> "none", pc |-> "idle", problem |-> NoRow, req |-> [none |-> TRUE],
      ret |-> "pending", e |-> "none", at |-> "none", log |-> <<>>, i |-> 0,
      pre |-> [none |-> TRUE] ]

InFlight(c) == calls[c].op # "none" /\ calls[c].ret = "pending"
Quiescent == \A c \in Calls : ~InFlight(c)

(***************************************************************************)
(* Transactions.  A call's open transaction is the list of its writes;     *)
(* at READ COMMITTED the transaction reads the committed rows overlaid     *)
(* with its own writes, everybody else reads the committed rows only;      *)
(* commit applies the writes at once and rollback drops them.              *)
(***************************************************************************)
ApplyWrite(d, x) ==
    CASE x.w = "problem" -> [d EXCEPT !.problem[x.k] = x.v]
      [] x.w = "judgeInfo" -> [d EXCEPT !.judgeInfo[x.k] = x.v]
      [] x.w = "sample" -> [d EXCEPT !.sample[x.k] = x.v]
      [] x.w = "localized" -> [d EXCEPT !.localized[x.k] = x.v]
      [] x.w = "tagMapDelete" -> [d EXCEPT !.tagMap = {m \in @ : m[1] # x.k}]
      [] x.w = "tagMapInsert" -> [d EXCEPT !.tagMap = @ \cup {<<x.k, t>> : t \in x.v}]
      [] x.w = "problemFile" -> [d EXCEPT !.problemFile[x.k] = x.v]
      [] x.w = "fileReference" ->
           LET n == d.file[x.k].referenceCount + x.v
           IN  [d EXCEPT !.file[x.k] = [exists |-> n > 0, referenceCount |-> n]]

RECURSIVE Apply(_, _)
Apply(d, log) == IF log = <<>> THEN d ELSE Apply(ApplyWrite(d, Head(log)), Tail(log))

\* What the transaction of call c reads.
TxView(c) == Apply(db, calls[c].log)

(***************************************************************************)
(* The problem table.                                                      *)
(***************************************************************************)
Existing(d) == {p \in ProblemIds : d.problem[p] # NoRow}

UniqueViolationIgnored(d, problem) == FALSE

\* The unique index on problem.displayId: writing this row would give a
\* non-null displayId to a second row.
UniqueViolation(d, problem) ==
    /\ problem.displayId # NULL
    /\ \E q \in Existing(d) : q # problem.id /\ d.problem[q].displayId = problem.displayId

\* Repository.count({ displayId })
CountDisplayId(d, displayId) ==
    Cardinality({q \in Existing(d) : d.problem[q].displayId = displayId})

\* Repository.save(problem): the row takes the entity's columns.
SaveProblem(d, problem) == [d EXCEPT !.problem[problem.id] = problem]

Return(c, ret) == [calls EXCEPT ![c].ret = ret, ![c].pc = "done"]

(***************************************************************************)
(* setProblemDisplayId(problem, displayId)                                 *)
(***************************************************************************)
\* The caller loads the entity (findProblemById) and makes the call.
BeginSetProblemDisplayId(c, p, displayId) ==
    /\ ~InFlight(c)
    /\ p \in Existing(db)
    /\ calls' = [calls EXCEPT ![c] =
                    [NoCall EXCEPT !.op = "setProblemDisplayId", !.pc = "save",
                                   !.problem = db.problem[p],
                                   !.req = [displayId |-> displayId]]]
    /\ UNCHANGED <<db, autoInc, permVars>>

\* The caller makes the call it made last once more, with the entity object
\* it passed before (as line 406 left it) and the same display id; the call
\* keeps what the one before returned.
RepeatSetProblemDisplayId(c) ==
    /\ ~InFlight(c)
    /\ calls[c].op = "setProblemDisplayId"
    /\ calls' = [calls EXCEPT ![c] =
                    [NoCall EXCEPT !.op = "setProblemDisplayId", !.pc = "save",
                                   !.problem = calls[c].problem,
                                   !.req = calls[c].req,
                                   !.pre = [ret |-> calls[c].ret]]]
    /\ UNCHANGED <<db, autoInc, permVars>>

NormalizeDisplayIdKeepsZero(displayId) == displayId

\* if (!displayId) displayId = null
NormalizeDisplayId(displayId) == IF displayId = 0 THEN NULL ELSE displayId

\* Lines 402-408: the unchanged case, and the save with its three outcomes:
\* written, refused by the unique index, failed for another reason.
SetProblemDisplayIdSave(c) ==
    LET call == calls[c]
        displayId == NormalizeDisplayId(call.req.displayId)
        problem == [call.problem EXCEPT !.displayId = displayId]
    IN  /\ call.op = "setProblemDisplayId" /\ call.pc = "save"
        /\ \/ /\ call.problem.displayId = displayId
              /\ calls' = Return(c, "true")
              /\ UNCHANGED db
           \/ /\ call.problem.displayId # displayId
              /\ ~UniqueViolation(db, problem)
              /\ db' = SaveProblem(db, problem)
              /\ calls' = [Return(c, "true") EXCEPT ![c].problem = problem]
           \/ /\ call.problem.displayId # displayId
              /\ UniqueViolation(db, problem)
              /\ calls' = [calls EXCEPT ![c].problem = problem, ![c].e = "unique",
                                        ![c].pc = "count"]
              /\ UNCHANGED db
           \/ /\ call.problem.displayId # displayId
              /\ calls' = [calls EXCEPT ![c].problem = problem, ![c].e = "other",
                                        ![c].pc = "count"]
              /\ UNCHANGED db
        /\ UNCHANGED <<autoInc, permVars, started>>

SetProblemDisplayIdCountRethrow(c) ==
    /\ calls[c].op = "setProblemDisplayId" /\ calls[c].pc = "count"
    /\ calls' = Return(c, "error")
    /\ UNCHANGED <<db, autoInc, permVars, started>>

\* Lines 409-418: the catch block counts the rows holding the display id.
SetProblemDisplayIdCount(c) ==
    /\ calls[c].op = "setProblemDisplayId" /\ calls[c].pc = "count"
    /\ calls' = Return(c, IF CountDisplayId(db, calls[c].problem.displayId) > 0
                          THEN "false" ELSE "error")
    /\ UNCHANGED <<db, autoInc, permVars, started>>

(***************************************************************************)
(* setProblemPublic(problem, isPublic)                                     *)
(***************************************************************************)
BeginSetProblemPublic(c, p, isPublic) ==
    /\ ~InFlight(c)
    /\ p \in Existing(db)
    /\ calls' = [calls EXCEPT ![c] =
                    [NoCall EXCEPT !.op = "setProblemPublic", !.pc = "save",
                                   !.problem = db.problem[p],
                                   !.req = [isPublic |-> isPublic]]]
    /\ UNCHANGED <<db, autoInc, permVars>>

\* Lines 422-425: the unchanged case, and the save, which writes the whole
\* entity and so fails when the entity's display id is held by another row.
SetProblemPublicSave(c) ==
    LET call == calls[c]
        problem == [call.problem EXCEPT !.isPublic = call.req.isPublic]
    IN  /\ call.op = "setProblemPublic" /\ call.pc = "save"
        /\ \/ /\ call.problem.isPublic = call.req.isPublic
              /\ calls' = Return(c, "void")
              /\ UNCHANGED db
           \/ /\ call.problem.isPublic # call.req.isPublic
              /\ ~UniqueViolation(db, problem)
              /\ db' = SaveProblem(db, problem)
              /\ calls' = [Return(c, "void") EXCEPT ![c].problem = problem]
           \/ /\ call.problem.isPublic # call.req.isPublic
              /\ calls' = [Return(c, "error") EXCEPT ![c].problem = problem,
                              ![c].e = IF UniqueViolation(db, problem) THEN "unique" ELSE "other"]
              /\ UNCHANGED db
        /\ UNCHANGED <<autoInc, permVars, started>>

(***************************************************************************)
(* Statements: createProblem and updateProblemStatement.                   *)
(***************************************************************************)
\* JSON.stringify(contentSections)
JSONstringify(contentSections) == "json:" \o contentSections

\* ProblemJudgeInfoService.getDefaultJudgeInfo(type)
getDefaultJudgeInfo(type) == "default:" \o type

LocaleLists == {<<>>, <<"en">>, <<"zh">>, <<"en", "zh">>}

\* The statements given to createProblem: every entry has its title and
\* its content sections.
CreateStatements ==
    { [ localizedContents |-> [k \in DOMAIN ls |->
                                 [locale |-> ls[k], title |-> "t1", contentSections |-> "c1"]],
        samples |-> "s1" ] : ls \in LocaleLists }

\* The requests given to updateProblemStatement: a title, the content
\* sections and the samples may each be null.
UpdateEntries(locale) ==
    [locale : {locale}, title : {Null, "t2"}, contentSections : {Null, "c2"}]

UpdateRequests ==
    UNION { { [localizedContents |-> lc, samples |-> s] :
                lc \in { f \in [DOMAIN ls -> UNION {UpdateEntries(l) : l \in Locales}] :
                           \A k \in DOMAIN ls : f[k].locale = ls[k] },
                s \in {Null, "s2"} } : ls \in LocaleLists }

LocalesOf(localizedContents) ==
    [k \in DOMAIN localizedContents |-> localizedContents[k].locale]

Range(f) == {f[k] : k \in DOMAIN f}

\* setProblemTags(problem, problemTags, transactionalEntityManager): the
\* writes it adds to the transaction.
setProblemTagsAlwaysInsert(problemId, problemTags) ==
    << [w |-> "tagMapInsert", k |-> problemId, v |-> problemTags] >>

setProblemTags(problemId, problemTags) ==
    << [w |-> "tagMapDelete", k |-> problemId, v |-> {}] >>
    \o (IF problemTags = {} THEN <<>>
        ELSE << [w |-> "tagMapInsert", k |-> problemId, v |-> problemTags] >>)

\* Lines 213-221: the entity is built and saved in the new transaction; the
\* table's auto-increment counter gives its id.
BeginCreateProblem(c, owner, type, statement, tags) ==
    LET problem == [ id |-> autoInc, displayId |-> NULL, type |-> type, isPublic |-> FALSE,
                     ownerId |-> owner,
                     locales |-> LocalesOf(statement.localizedContents),
                     submissionCount |-> 0, acceptedSubmissionCount |-> 0 ]
    IN  /\ ~InFlight(c)
        /\ autoInc \in ProblemIds
        /\ autoInc' = autoInc + 1
        /\ calls' = [calls EXCEPT ![c] =
                        [NoCall EXCEPT !.op = "createProblem", !.pc = "judgeInfo",
                                       !.problem = problem,
                                       !.req = [owner |-> owner, type |-> type,
                                                statement |-> statement, tags |-> tags],
                                       !.log = << [w |-> "problem", k |-> problem.id, v |-> problem] >>,
                                       !.i = 1, !.pre = db]]
        /\ UNCHANGED <<db, permVars>>

\* Lines 223-226
CreateJudgeInfo(c) ==
    LET call == calls[c]
    IN  /\ call.op = "createProblem" /\ call.pc = "judgeInfo"
        /\ calls' = [calls EXCEPT ![c].pc = "sample",
                        ![c].log = Append(@, [w |-> "judgeInfo", k |-> call.problem.id,
                                              v |-> getDefaultJudgeInfo(call.problem.type)])]
        /\ UNCHANGED <<db, autoInc, permVars, started>>

\* Lines 228-231
CreateSample(c) ==
    LET call == calls[c]
    IN  /\ call.op = "createProblem" /\ call.pc = "sample"
        /\ calls' = [calls EXCEPT ![c].pc = "localized",
                        ![c].log = Append(@, [w |-> "sample", k |-> call.problem.id,
                                              v |-> call.req.statement.samples])]
        /\ UNCHANGED <<db, autoInc, permVars, started>>

\* LocalizedContentService.createOrUpdate(objectId, type, locale, data) called
\* without an entity manager: the row is written on the service's own
\* connection, outside every transaction, and is committed at once.
createOrUpdate(d, objectId, type, locale, data) ==
    [d EXCEPT !.localized[<<objectId, type, locale>>] = data]

CreateLocalizedContentOutsideTransaction(c) ==
    LET call == calls[c]
        contents == call.req.statement.localizedContents
    IN  /\ call.op = "createProblem" /\ call.pc = "localized"
        /\ call.i <= Len(contents)
        /\ db' = createOrUpdate(
                    createOrUpdate(db, call.problem.id, "PROBLEM_TITLE",
                                   contents[call.i].locale, contents[call.i].title),
                    call.problem.id, "PROBLEM_CONTENT", contents[call.i].locale,
                    JSONstringify(contents[call.i].contentSections))
        /\ calls' = [calls EXCEPT ![c].i = @ + 1]
        /\ UNCHANGED <<autoInc, permVars, started>>

\* Lines 233-248: one turn of the loop, both rows written in the transaction.
CreateLocalizedContent(c) ==
    LET call == calls[c]
        contents == call.req.statement.localizedContents
    IN  /\ call.op = "createProblem" /\ call.pc = "localized"
        /\ call.i <= Len(contents)
        /\ calls' = [calls EXCEPT ![c].i = @ + 1,
                        ![c].log = @ \o
                          << [w |-> "localized",
                              k |-> <<call.problem.id, "PROBLEM_TITLE", contents[call.i].locale>>,
                              v |-> contents[call.i].title],
                             [w |-> "localized",
                              k |-> <<call.problem.id, "PROBLEM_CONTENT", contents[call.i].locale>>,
                              v |-> JSONstringify(contents[call.i].contentSections)] >>]
        /\ UNCHANGED <<db, autoInc, permVars, started>>

\* Line 250
CreateSetProblemTags(c) ==
    LET call == calls[c]
    IN  /\ call.op = "createProblem" /\ call.pc = "localized"
        /\ call.i > Len(call.req.statement.localizedContents)
        /\ calls' = [calls EXCEPT ![c].pc = "commit",
                        ![c].log = @ \o setProblemTags(call.problem.id, call.req.tags)]
        /\ UNCHANGED <<db, autoInc, permVars, started>>

(***************************************************************************)
(* updateProblemJudgeInfo(problem, judgeInfo)                              *)
(***************************************************************************)
JudgeInfos == {"j1"}

\* Line 316: the caller loads the entity and makes the call.
BeginUpdateProblemJudgeInfo(c, p, judgeInfo) ==
    /\ ~InFlight(c)
    /\ p \in Existing(db)
    /\ calls' = [calls EXCEPT ![c] =
                    [NoCall EXCEPT !.op = "updateProblemJudgeInfo", !.pc = "find",
                                   !.problem = db.problem[p],
                                   !.req = [judgeInfo |-> judgeInfo]]]
    /\ UNCHANGED <<db, autoInc, permVars>>

\* Lines 317-321: the problem's row is read from the committed store and takes
\* the new configuration; the assignment throws when there is no row.
UpdateProblemJudgeInfoFind(c) ==
    LET call == calls[c]
    IN  /\ call.op = "updateProblemJudgeInfo" /\ call.pc = "find"
        /\ \/ /\ db.judgeInfo[call.problem.id] # Absent
              /\ calls' = [calls EXCEPT ![c].pc = "save"]
           \/ calls' = [Return(c, "error") EXCEPT ![c].e = "other", ![c].at = "find"]
        /\ UNCHANGED <<db, autoInc, permVars, started>>

UpdateProblemJudgeInfoSaveRemovesRow(c) ==
    LET call == calls[c]
    IN  /\ call.op = "updateProblemJudgeInfo" /\ call.pc = "save"
        /\ db' = [db EXCEPT !.judgeInfo[call.problem.id] = Absent]
        /\ calls' = Return(c, "void")
        /\ UNCHANGED <<autoInc, permVars, started>>

\* Line 322: the row is saved with the configuration given, whole; the save
\* may fail.
UpdateProblemJudgeInfoSave(c) ==
    LET call == calls[c]
    IN  /\ call.op = "updateProblemJudgeInfo" /\ call.pc = "save"
        /\ \/ /\ db' = [db EXCEPT !.judgeInfo[call.problem.id] = call.req.judgeInfo]
              /\ calls' = Return(c, "void")
           \/ /\ calls' = [Return(c, "error") EXCEPT ![c].e = "other", ![c].at = "save"]
              /\ UNCHANGED db
        /\ UNCHANGED <<autoInc, permVars, started>>

\* The caller loads the entity (findProblemById) and makes the call.
BeginUpdateProblemStatement(c, p, request, tags) ==
    /\ ~InFlight(c)
    /\ p \in Existing(db)
    /\ calls' = [calls EXCEPT ![c] =
                    [NoCall EXCEPT !.op = "updateProblemStatement", !.pc = "samples",
                                   !.problem = db.problem[p],
                                   !.req = [request |-> request, tags |-> tags],
                                   !.i = 1, !.pre = db]]
    /\ UNCHANGED <<db, autoInc, permVars>>

\* Lines 262-268
UpdateSamples(c) ==
    LET call == calls[c]
    IN  /\ call.op = "updateProblemStatement" /\ call.pc = "samples"
        /\ calls' = [calls EXCEPT ![c].pc = "deleting",
                        ![c].log = IF call.req.request.samples # Null
                                   THEN Append(@, [w |-> "sample", k |-> call.problem.id,
                                                   v |-> call.req.request.samples])
                                   ELSE @]
        /\ UNCHANGED <<db, autoInc, permVars, started>>

\* The deletes of one locale, lines 274-285.
DeleteLocale(problemId, locale) ==
    << [w |-> "localized", k |-> <<problemId, "PROBLEM_TITLE", locale>>, v |-> Absent],
       [w |-> "localized", k |-> <<problemId, "PROBLEM_CONTENT", locale>>, v |-> Absent] >>

RECURSIVE DeleteLocales(_, _)
DeleteLocales(problemId, locales) ==
    IF locales = <<>> THEN <<>>
    ELSE DeleteLocale(problemId, Head(locales)) \o DeleteLocales(problemId, Tail(locales))

\* problem.locales.filter(locale => !newLocales.includes(locale))
DeletingLocales(locales, newLocales) ==
    SelectSeq(locales, LAMBDA locale : locale \notin Range(newLocales))

\* Lines 270-288: the rows of the dropped locales are deleted in the
\* transaction and the entity takes the request's locales.
UpdateDeleteLocales(c) ==
    LET call == calls[c]
        newLocales == LocalesOf(call.req.request.localizedContents)
        deletingLocales == DeletingLocales(call.problem.locales, newLocales)
    IN  /\ call.op = "updateProblemStatement" /\ call.pc = "deleting"
        /\ calls' = [calls EXCEPT ![c].pc = "title",
                        ![c].log = @ \o DeleteLocales(call.problem.id, deletingLocales),
                        ![c].problem.locales = newLocales]
        /\ UNCHANGED <<db, autoInc, permVars, started>>

\* Lines 292-298
UpdateTitle(c) ==
    LET call == calls[c]
        contents == call.req.request.localizedContents
    IN  /\ call.op = "updateProblemStatement" /\ call.pc = "title"
        /\ call.i <= Len(contents)
        /\ db' = IF contents[call.i].title # Null
                 THEN createOrUpdate(db, call.problem.id, "PROBLEM_TITLE",
                                     contents[call.i].locale, contents[call.i].title)
                 ELSE db
        /\ calls' = [calls EXCEPT ![c].pc = "content"]
        /\ UNCHANGED <<autoInc, permVars, started>>

UpdateContentWritesNull(c) ==
    LET call == calls[c]
        contents == call.req.request.localizedContents
    IN  /\ call.op = "updateProblemStatement" /\ call.pc = "content"
        /\ db' = createOrUpdate(db, call.problem.id, "PROBLEM_CONTENT",
                                contents[call.i].locale,
                                JSONstringify(contents[call.i].contentSections))
        /\ calls' = [calls EXCEPT ![c].pc = "title", ![c].i = @ + 1]
        /\ UNCHANGED <<autoInc, permVars, started>>

\* Lines 299-305
UpdateContent(c) ==
    LET call == calls[c]
        contents == call.req.request.localizedContents
    IN  /\ call.op = "updateProblemStatement" /\ call.pc = "content"
        /\ db' = IF contents[call.i].contentSections # Null
                 THEN createOrUpdate(db, call.problem.id, "PROBLEM_CONTENT",
                                     contents[call.i].locale,
                                     JSONstringify(contents[call.i].contentSections))
                 ELSE db
        /\ calls' = [calls EXCEPT ![c].pc = "title", ![c].i = @ + 1]
        /\ UNCHANGED <<autoInc, permVars, started>>

\* Line 308
UpdateSetProblemTags(c) ==
    LET call == calls[c]
    IN  /\ call.op = "updateProblemStatement" /\ call.pc = "title"
        /\ call.i > Len(call.req.request.localizedContents)
        /\ calls' = [calls EXCEPT ![c].pc = "saveProblem",
                        ![c].log = @ \o setProblemTags(call.problem.id, call.req.tags)]
        /\ UNCHANGED <<db, autoInc, permVars, started>>

\* Line 310: the entity is saved in the transaction.
UpdateSaveProblem(c) ==
    LET call == calls[c]
    IN  /\ call.op = "updateProblemStatement" /\ call.pc = "saveProblem"
        /\ ~UniqueViolation(TxView(c), call.problem)
        /\ calls' = [calls EXCEPT ![c].pc = "commit",
                        ![c].log = Append(@, [w |-> "problem", k |-> call.problem.id,
                                              v |-> call.problem])]
        /\ UNCHANGED <<db, autoInc, permVars, started>>

InTransaction(c) ==
    /\ calls[c].op \in {"createProblem", "updateProblemStatement", "addProblemFile", "removeProblemFiles"}
    /\ calls[c].ret = "pending"

\* connection.transaction(): the callback has returned and the transaction
\* commits; all its writes become visible together.
Commit(c) ==
    /\ InTransaction(c) /\ calls[c].pc = "commit"
    /\ db' = Apply(db, calls[c].log)
    /\ calls' = [calls EXCEPT ![c].log = <<>>, ![c].pc = "done",
                    ![c].ret = CASE calls[c].op = "createProblem" -> "problem"
                                 [] calls[c].op = "updateProblemStatement" -> "true"
                                 [] calls[c].op = "addProblemFile" -> "true"
                                 [] calls[c].op = "removeProblemFiles" -> "void"]
    /\ UNCHANGED <<autoInc, permVars, started>>

\* A statement of the transaction (or its commit) throws: the transaction
\* is rolled back and the error reaches the caller.
Rollback(c) ==
    /\ InTransaction(c)
    /\ calls' = [calls EXCEPT ![c].log = <<>>, ![c].pc = "done", ![c].ret = "error",
                              ![c].e = "other", ![c].at = calls[c].pc]
    /\ UNCHANGED <<db, autoInc, permVars, started>>

(***************************************************************************)
(* Problem files: addProblemFile and removeProblemFiles.                   *)
(***************************************************************************)
\* The handle (uuid) of the stored file with this content hash, and back.
UuidOf(sha256) == "uuid:" \o sha256
HashOf(uuid) == CHOOSE h \in Hashes : UuidOf(h) = uuid

\* FileService.tryReferenceFile(sha256, transactionalEntityManager): the
\* write that takes one more reference.
tryReferenceFile(sha256) == << [w |-> "fileReference", k |-> sha256, v |-> 1] >>

\* FileService.dereferenceFile(uuid, transactionalEntityManager): the write
\* that gives one reference back.
dereferenceFile(uuid) == << [w |-> "fileReference", k |-> HashOf(uuid), v |-> -1] >>

\* The caller loads the entity (findProblemById) and makes the call.
BeginAddProblemFile(c, p, sha256, type, filename) ==
    /\ ~InFlight(c)
    /\ p \in Existing(db)
    /\ calls' = [calls EXCEPT ![c] =
                    [NoCall EXCEPT !.op = "addProblemFile", !.pc = "tryReference",
                                   !.problem = db.problem[p],
                                   !.req = [sha256 |-> sha256, key |-> <<p, type, filename>>,
                                            uuid |-> Absent],
                                   !.pre = db]]
    /\ UNCHANGED <<db, autoInc, permVars>>

AddProblemFileTryReferenceUnchecked(c) ==
    LET call == calls[c]
    IN  /\ call.op = "addProblemFile" /\ call.pc = "tryReference"
        /\ calls' = [calls EXCEPT ![c].pc = "find",
                        ![c].req.uuid = UuidOf(call.req.sha256),
                        ![c].log = IF TxView(c).file[call.req.sha256].exists
                                   THEN @ \o tryReferenceFile(call.req.sha256)
                                   ELSE @]
        /\ UNCHANGED <<db, autoInc, permVars, started>>

\* Lines 435-438: without a stored file of this hash the call returns false
\* and its transaction commits nothing.
AddProblemFileTryReference(c) ==
    LET call == calls[c]
    IN  /\ call.op = "addProblemFile" /\ call.pc = "tryReference"
        /\ \/ /\ ~TxView(c).file[call.req.sha256].exists
              /\ calls' = Return(c, "false")
           \/ /\ TxView(c).file[call.req.sha256].exists
              /\ calls' = [calls EXCEPT ![c].pc = "find",
                              ![c].req.uuid = UuidOf(call.req.sha256),
                              ![c].log = @ \o tryReferenceFile(call.req.sha256)]
        /\ UNCHANGED <<db, autoInc, permVars, started>>

AddProblemFileFindKeepsOldReference(c) ==
    LET call == calls[c]
    IN  /\ call.op = "addProblemFile" /\ call.pc = "find"
        /\ calls' = [calls EXCEPT ![c].pc = "save"]
        /\ UNCHANGED <<db, autoInc, permVars, started>>

AddProblemFileFindDereferencesNew(c) ==
    LET call == calls[c]
        problemFile == db.problemFile[call.req.key]
    IN  /\ call.op = "addProblemFile" /\ call.pc = "find"
        /\ calls' = [calls EXCEPT ![c].pc = "save",
                        ![c].log = IF problemFile # Absent
                                   THEN @ \o dereferenceFile(call.req.uuid)
                                   ELSE @]
        /\ UNCHANGED <<db, autoInc, permVars, started>>

\* Lines 440-453: the row at the key is looked up through the repository
\* (the committed rows); the file it held is dereferenced in the transaction.
AddProblemFileFind(c) ==
    LET call == calls[c]
        problemFile == db.problemFile[call.req.key]
    IN  /\ call.op = "addProblemFile" /\ call.pc = "find"
        /\ calls' = [calls EXCEPT ![c].pc = "save",
                        ![c].log = IF problemFile # Absent
                                   THEN @ \o dereferenceFile(problemFile)
                                   ELSE @]
        /\ UNCHANGED <<db, autoInc, permVars, started>>

\* Lines 455-456
AddProblemFileSave(c) ==
    LET call == calls[c]
    IN  /\ call.op = "addProblemFile" /\ call.pc = "save"
        /\ calls' = [calls EXCEPT ![c].pc = "commit",
                        ![c].log = Append(@, [w |-> "problemFile", k |-> call.req.key,
                                              v |-> call.req.uuid])]
        /\ UNCHANGED <<db, autoInc, permVars, started>>

FilenameLists == {<<"a">>, <<"b">>, <<"a", "b">>, <<"a", "a">>}

BeginRemoveProblemFiles(c, p, type, filenames) ==
    /\ ~InFlight(c)
    /\ p \in Existing(db)
    /\ calls' = [calls EXCEPT ![c] =
                    [NoCall EXCEPT !.op = "removeProblemFiles", !.pc = "remove",
                                   !.problem = db.problem[p],
                                   !.req = [type |-> type, filenames |-> filenames],
                                   !.i = 1, !.pre = db]]
    /\ UNCHANGED <<db, autoInc, permVars>>

RemoveProblemFileFindsCommittedRow(c) ==
    LET call == calls[c]
        key == <<call.problem.id, call.req.type, call.req.filenames[call.i]>>
        problemFile == db.problemFile[key]
    IN  /\ call.op = "removeProblemFiles" /\ call.pc = "remove"
        /\ call.i <= Len(call.req.filenames)
        /\ calls' = [calls EXCEPT ![c].i = @ + 1,
                        ![c].log = IF problemFile = Absent THEN @
                                   ELSE @ \o << [w |-> "problemFile", k |-> key, v |-> Absent] >>
                                          \o dereferenceFile(problemFile)]
        /\ UNCHANGED <<db, autoInc, permVars, started>>

\* Lines 464-475: one turn of the loop; the row is looked up in the
\* transaction, removed, and its file dereferenced.
RemoveProblemFile(c) ==
    LET call == calls[c]
        key == <<call.problem.id, call.req.type, call.req.filenames[call.i]>>
        problemFile == TxView(c).problemFile[key]
    IN  /\ call.op = "removeProblemFiles" /\ call.pc = "remove"
        /\ call.i <= Len(call.req.filenames)
        /\ calls' = [calls EXCEPT ![c].i = @ + 1,
                        ![c].log = IF problemFile = Absent THEN @
                                   ELSE @ \o << [w |-> "problemFile", k |-> key, v |-> Absent] >>
                                          \o dereferenceFile(problemFile)]
        /\ UNCHANGED <<db, autoInc, permVars, started>>

RemoveProblemFilesEnd(c) ==
    LET call == calls[c]
    IN  /\ call.op = "removeProblemFiles" /\ call.pc = "remove"
        /\ call.i > Len(call.req.filenames)
        /\ calls' = [calls EXCEPT ![c].pc = "commit"]
        /\ UNCHANGED <<db, autoInc, permVars, started>>

(***************************************************************************)
(* renameProblemFile(problem, type, filename, newFilename); no transaction. *)
(***************************************************************************)
BeginRenameProblemFile(c, p, type, filename, newFilename) ==
    /\ ~InFlight(c)
    /\ p \in Existing(db)
    /\ calls' = [calls EXCEPT ![c] =
                    [NoCall EXCEPT !.op = "renameProblemFile", !.pc = "find",
                                   !.problem = db.problem[p],
                                   !.req = [key |-> <<p, type, filename>>,
                                            newKey |-> <<p, type, newFilename>>,
                                            uuid |-> Absent],
                                   !.pre = db]]
    /\ UNCHANGED <<db, autoInc, permVars>>

\* Lines 506-512: the row is looked up; without one the call returns false.
RenameProblemFileFind(c) ==
    LET call == calls[c]
        problemFile == db.problemFile[call.req.key]
    IN  /\ call.op = "renameProblemFile" /\ call.pc = "find"
        /\ calls' = IF problemFile = Absent THEN Return(c, "false")
                     ELSE [calls EXCEPT ![c].pc = "update", ![c].req.uuid = problemFile]
        /\ UNCHANGED <<db, autoInc, permVars, started>>

RenameProblemFileUpdateBySave(c) ==
    LET call == calls[c]
    IN  /\ call.op = "renameProblemFile" /\ call.pc = "update"
        /\ db' = [db EXCEPT !.problemFile[call.req.newKey] = call.req.uuid]
        /\ calls' = Return(c, "true")
        /\ UNCHANGED <<autoInc, permVars, started>>

\* Lines 514-519: UPDATE ... SET filename = newFilename on the rows equal to
\* the entity found.  The filename is part of the primary key (line 514): the
\* statement is refused when another row has the new key.  The statement may
\* also fail for another reason.
RenameProblemFileUpdate(c) ==
    LET call == calls[c]
        matched == db.problemFile[call.req.key] = call.req.uuid
    IN  /\ call.op = "renameProblemFile" /\ call.pc = "update"
        /\ \/ IF ~matched \/ call.req.newKey = call.req.key
              THEN /\ calls' = Return(c, "true")
                   /\ UNCHANGED db
              ELSE IF db.problemFile[call.req.newKey] # Absent
              THEN /\ calls' = [Return(c, "error") EXCEPT ![c].e = "unique"]
                   /\ UNCHANGED db
              ELSE /\ db' = [db EXCEPT !.problemFile[call.req.key] = Absent,
                                       !.problemFile[call.req.newKey] = call.req.uuid]
                   /\ calls' = Return(c, "true")
           \/ /\ calls' = [Return(c, "error") EXCEPT ![c].e = "other"]
              /\ UNCHANGED db
        /\ UNCHANGED <<autoInc, permVars, started>>

(***************************************************************************)
(* updateProblemStatistics(problemId, incSubmissionCount,                  *)
(* incAcceptedSubmissionCount); no transaction.                            *)
(***************************************************************************)
\* The pairs (incSubmissionCount, incAcceptedSubmissionCount) of the calls.
StatisticsDeltas == {<<1, 1>>, <<1, 0>>, <<0, 1>>, <<-1, -1>>, <<0, 0>>}

BeginUpdateProblemStatistics(c, problemId, incSubmissionCount, incAcceptedSubmissionCount) ==
    /\ ~InFlight(c)
    /\ problemId \in Existing(db)
    /\ calls' = [calls EXCEPT ![c] =
                    [NoCall EXCEPT !.op = "updateProblemStatistics", !.pc = "submissionCount",
                                   !.problem = [id |-> problemId],
                                   !.req = [incSubmissionCount |-> incSubmissionCount,
                                            incAcceptedSubmissionCount |->
                                              incAcceptedSubmissionCount],
                                   !.pre = db]]
    /\ UNCHANGED <<db, autoInc, permVars>>

UpdateSubmissionCountReadModifyWrite(c) ==
    LET call == calls[c]
        id == call.problem.id
    IN  /\ call.op = "updateProblemStatistics" /\ call.pc = "submissionCount"
        /\ db' = [db EXCEPT !.problem[id].submissionCount =
                               call.pre.problem[id].submissionCount + call.req.incSubmissionCount]
        /\ calls' = [calls EXCEPT ![c].pc = "acceptedSubmissionCount"]
        /\ UNCHANGED <<autoInc, permVars, started>>

\* Lines 527-529: UPDATE ... SET submissionCount = submissionCount + inc, one
\* statement of the store; it may fail.
UpdateSubmissionCount(c) ==
    LET call == calls[c]
        id == call.problem.id
    IN  /\ call.op = "updateProblemStatistics" /\ call.pc = "submissionCount"
        /\ \/ /\ db' = IF call.req.incSubmissionCount # 0
                        THEN [db EXCEPT !.problem[id].submissionCount =
                                          @ + call.req.incSubmissionCount]
                        ELSE db
              /\ calls' = [calls EXCEPT ![c].pc = "acceptedSubmissionCount"]
           \/ /\ call.req.incSubmissionCount # 0
              /\ calls' = [Return(c, "error") EXCEPT ![c].e = "other",
                                                     ![c].at = "submissionCount"]
              /\ UNCHANGED db
        /\ UNCHANGED <<autoInc, permVars, started>>

\* Lines 531-533
UpdateAcceptedSubmissionCount(c) ==
    LET call == calls[c]
        id == call.problem.id
    IN  /\ call.op = "updateProblemStatistics" /\ call.pc = "acceptedSubmissionCount"
        /\ \/ /\ db' = IF call.req.incAcceptedSubmissionCount # 0
                        THEN [db EXCEPT !.problem[id].acceptedSubmissionCount =
                                          @ + call.req.incAcceptedSubmissionCount]
                        ELSE db
              /\ calls' = Return(c, "void")
           \/ /\ call.req.incAcceptedSubmissionCount # 0
              /\ calls' = [Return(c, "error") EXCEPT ![c].e = "other",
                                                     ![c].at = "acceptedSubmissionCount"]
              /\ UNCHANGED db
        /\ UNCHANGED <<autoInc, permVars, started>>

(***************************************************************************)
(* Specifications.                                                         *)
(***************************************************************************)
PermIdle ==
    [ user |-> NoUser, problem |-> [ownerId |-> 1, isPublic |-> FALSE], privileged |-> {},
      aclUser |-> 0, aclGroups |-> [g \in 1..MaxAclGroups |-> 0],
      preference |-> [allowOwnerManageProblemPermission |-> FALSE,
                      allowOwnerDeleteProblem |-> FALSE],
      type |-> "VIEW" ]

NoCalls == [c \in Calls |-> NoCall]

\* The permission resolver on every input.
InitPerm ==
    /\ permIn \in PermInputs
    /\ permOut = "pending"
    /\ db = EmptyDb /\ autoInc = 1 /\ calls = NoCalls /\ started = 0

NextPerm == Resolve

SpecPerm == InitPerm /\ [][NextPerm]_vars

\* One caller: calls are made one after the other, in the first slot.
Sequential(c) == c = 1 /\ Quiescent

\* Concurrent callers: every slot serves one call, the slots in order.
OneShot(c) == calls[c].op = "none" /\ \A c2 \in Calls : c2 < c => calls[c2].op # "none"

\* At most MaxCalls calls are made.
Counted == started < MaxCalls /\ started' = started + 1

Owners == {1}

\* The tag lists given with a statement.
StatementTags == {{}, {1}}

\* createProblem and updateProblemStatement, one call at a time, on a store
\* that starts empty; any statement of a transaction may fail.
InitStmt ==
    /\ permIn = PermIdle /\ permOut = "idle"
    /\ db = EmptyDb /\ autoInc = 1 /\ calls = NoCalls /\ started = 0

NextStmt ==
    \/ \E c \in Calls :
          /\ Sequential(c) /\ Counted
          /\ \E owner \in Owners, type \in ProblemTypes, statement \in CreateStatements,
                tags \in StatementTags :
                BeginCreateProblem(c, owner, type, statement, tags)
    \/ \E c \in Calls :
          /\ Sequential(c) /\ Counted
          /\ \E p \in ProblemIds, request \in UpdateRequests, tags \in StatementTags :
                BeginUpdateProblemStatement(c, p, request, tags)
    \/ \E c \in Calls : CreateJudgeInfo(c)
    \/ \E c \in Calls : CreateSample(c)
    \/ \E c \in Calls : CreateLocalizedContent(c)
    \/ \E c \in Calls : CreateSetProblemTags(c)
    \/ \E c \in Calls : UpdateSamples(c)
    \/ \E c \in Calls : UpdateDeleteLocales(c)
    \/ \E c \in Calls : UpdateTitle(c)
    \/ \E c \in Calls : UpdateContent(c)
    \/ \E c \in Calls : UpdateSetProblemTags(c)
    \/ \E c \in Calls : UpdateSaveProblem(c)
    \/ \E c \in Calls : Commit(c)
    \/ \E c \in Calls : Rollback(c)

SpecStmt == InitStmt /\ [][NextStmt]_vars

\* A problem as createProblem leaves it for a statement without locales.
CreatedRow(p, displayId) ==
    [ id |-> p, displayId |-> displayId, type |-> "TRADITIONAL", isPublic |-> FALSE,
      ownerId |-> 1, locales |-> <<>>, submissionCount |-> 0, acceptedSubmissionCount |-> 0 ]

\* The stores holding the problems 1..n, whose display ids are null or
\* pairwise different.
CreatedDbs(n) ==
    { [EmptyDb EXCEPT
         !.problem = [p \in ProblemIds |-> IF p <= n THEN CreatedRow(p, ids[p]) ELSE NoRow],
         !.judgeInfo = [p \in ProblemIds |-> IF p <= n THEN getDefaultJudgeInfo("TRADITIONAL") ELSE Absent],
         !.sample = [p \in ProblemIds |-> IF p <= n THEN "s1" ELSE Absent]] :
      ids \in { f \in [1..n -> {NULL} \cup DisplayIds] :
                  \A p, q \in 1..n : (p # q /\ f[p] # NULL) => f[p] # f[q] } }

\* setProblemDisplayId, setProblemPublic and createProblem called
\* concurrently on a store that holds problems already.
InitDisp ==
    /\ permIn = PermIdle /\ permOut = "idle"
    /\ \E n \in {MaxProblems - 1, MaxProblems} : db \in CreatedDbs(n) /\ autoInc = n + 1
    /\ calls = NoCalls /\ started = 0

NextDisp ==
    \/ \E c \in Calls :
          /\ OneShot(c) /\ Counted
          /\ \E p \in ProblemIds, displayId \in 0..MaxDisplayId :
                BeginSetProblemDisplayId(c, p, displayId)
    \/ \E c \in Calls : SetProblemDisplayIdSave(c)
    \/ \E c \in Calls : SetProblemDisplayIdCount(c)
    \/ \E c \in Calls :
          /\ OneShot(c) /\ Counted
          /\ \E p \in ProblemIds, isPublic \in BOOLEAN : BeginSetProblemPublic(c, p, isPublic)
    \/ \E c \in Calls : SetProblemPublicSave(c)
    \/ \E c \in Calls :
          /\ OneShot(c) /\ Counted
          /\ \E statement \in {s \in CreateStatements : s.localizedContents = <<>>} :
                BeginCreateProblem(c, 1, "TRADITIONAL", statement, {})
    \/ \E c \in Calls : CreateJudgeInfo(c)
    \/ \E c \in Calls : CreateSample(c)
    \/ \E c \in Calls : CreateSetProblemTags(c)
    \/ \E c \in Calls : Commit(c)
    \/ \E c \in Calls : Rollback(c)

SpecDisp == InitDisp /\ [][NextDisp]_vars

\* addProblemFile, removeProblemFiles and renameProblemFile, one call at a
\* time and any number of them, on a store that holds the problems and some uploaded files
\* nobody references yet.
InitFile ==
    /\ permIn = PermIdle /\ permOut = "idle"
    /\ \E uploaded \in SUBSET Hashes :
          db = [CHOOSE d \in CreatedDbs(MaxProblems) :
                    \A p \in ProblemIds : d.problem[p].displayId = NULL
                EXCEPT !.file = [h \in Hashes |->
                                   [exists |-> h \in uploaded, referenceCount |-> 0]]]
    /\ autoInc = MaxProblems + 1
    /\ calls = NoCalls /\ started = 0

NextFile ==
    \/ \E c \in Calls :
          /\ Sequential(c) /\ UNCHANGED started
          /\ \E p \in ProblemIds, sha256 \in Hashes, type \in ProblemFileTypes,
                filename \in Filenames :
                BeginAddProblemFile(c, p, sha256, type, filename)
    \/ \E c \in Calls : AddProblemFileTryReference(c)
    \/ \E c \in Calls : AddProblemFileFind(c)
    \/ \E c \in Calls : AddProblemFileSave(c)
    \/ \E c \in Calls :
          /\ Sequential(c) /\ UNCHANGED started
          /\ \E p \in ProblemIds, type \in ProblemFileTypes, filenames \in FilenameLists :
                BeginRemoveProblemFiles(c, p, type, filenames)
    \/ \E c \in Calls : RemoveProblemFile(c)
    \/ \E c \in Calls : RemoveProblemFilesEnd(c)
    \/ \E c \in Calls :
          /\ Sequential(c) /\ UNCHANGED started
          /\ \E p \in ProblemIds, type \in ProblemFileTypes, filename \in Filenames,
                newFilename \in Filenames :
                BeginRenameProblemFile(c, p, type, filename, newFilename)
    \/ \E c \in Calls : RenameProblemFileFind(c)
    \/ \E c \in Calls : RenameProblemFileUpdate(c)
    \/ \E c \in Calls : Commit(c)
    \/ \E c \in Calls : Rollback(c)

SpecFile == InitFile /\ [][NextFile]_vars

\* setProblemTags as updateProblemStatement calls it, with every tag list, for
\* a request that changes nothing else; one call at a time and any number of
\* them, on a store that holds the problems without tags.
InitTags ==
    /\ permIn = PermIdle /\ permOut = "idle"
    /\ db = CHOOSE d \in CreatedDbs(MaxProblems) :
                \A p \in ProblemIds : d.problem[p].displayId = NULL
    /\ autoInc = MaxProblems + 1
    /\ calls = NoCalls /\ started = 0

NextTags ==
    \/ \E c \in Calls :
          /\ Sequential(c) /\ UNCHANGED started
          /\ \E p \in ProblemIds, tags \in SUBSET TagIds :
                BeginUpdateProblemStatement(c, p, [localizedContents |-> <<>>, samples |-> Null],
                                            tags)
    \/ \E c \in Calls : UpdateSamples(c)
    \/ \E c \in Calls : UpdateDeleteLocales(c)
    \/ \E c \in Calls : UpdateSetProblemTags(c)
    \/ \E c \in Calls : UpdateSaveProblem(c)
    \/ \E c \in Calls : Commit(c)
    \/ \E c \in Calls : Rollback(c)

SpecTags == InitTags /\ [][NextTags]_vars

\* updateProblemStatistics called concurrently on a store that holds the
\* problems, their counters at zero.
InitStat ==
    /\ permIn = PermIdle /\ permOut = "idle"
    /\ db = CHOOSE d \in CreatedDbs(MaxProblems) :
                \A p \in ProblemIds : d.problem[p].displayId = NULL
    /\ autoInc = MaxProblems + 1
    /\ calls = NoCalls /\ started = 0

NextStat ==
    \/ \E c \in Calls :
          /\ OneShot(c) /\ Counted
          /\ \E problemId \in ProblemIds, inc \in StatisticsDeltas :
                BeginUpdateProblemStatistics(c, problemId, inc[1], inc[2])
    \/ \E c \in Calls : UpdateSubmissionCount(c)
    \/ \E c \in Calls : UpdateAcceptedSubmissionCount(c)

SpecStat == InitStat /\ [][NextStat]_vars

\* setProblemDisplayId and setProblemPublic by one caller, who may repeat a
\* setProblemDisplayId right away with the entity object of the call before;
\* nobody else changes the store.
InitRetry ==
    /\ permIn = PermIdle /\ permOut = "idle"
    /\ db \in CreatedDbs(MaxProblems) /\ autoInc = MaxProblems + 1
    /\ calls = NoCalls /\ started = 0

NextRetry ==
    \/ \E c \in Calls :
          /\ Sequential(c) /\ UNCHANGED started
          /\ \E p \in ProblemIds, displayId \in 0..MaxDisplayId :
                BeginSetProblemDisplayId(c, p, displayId)
    \/ \E c \in Calls : Sequential(c) /\ UNCHANGED started /\ RepeatSetProblemDisplayId(c)
    \/ \E c \in Calls : SetProblemDisplayIdSave(c)
    \/ \E c \in Calls : SetProblemDisplayIdCount(c)
    \/ \E c \in Calls :
          /\ Sequential(c) /\ UNCHANGED started
          /\ \E p \in ProblemIds, isPublic \in BOOLEAN : BeginSetProblemPublic(c, p, isPublic)
    \/ \E c \in Calls : SetProblemPublicSave(c)

SpecRetry == InitRetry /\ [][NextRetry]_vars

\* The requests of updateProblemStatement that drop every locale or give the
\* locale "en" in full, with or without samples.
WholeRequests ==
    {r \in UpdateRequests :
        /\ Len(r.localizedContents) <= 1
        /\ \A k \in DOMAIN r.localizedContents :
              /\ r.localizedContents[k].locale = "en"
              /\ r.localizedContents[k].title # Null
              /\ r.localizedContents[k].contentSections # Null}

\* A problem's life: createProblem by any owner, with a statement in no or in
\* both locales and no tags, on a store that starts empty,
\* and then the operations on created problems (updateProblemStatement,
\* updateProblemJudgeInfo, setProblemPublic, setProblemDisplayId), one call at
\* a time, every call kept.
InitLife ==
    /\ permIn = PermIdle /\ permOut = "idle"
    /\ db = EmptyDb /\ autoInc = 1 /\ calls = NoCalls /\ started = 0

NextLife ==
    \/ \E c \in Calls :
          /\ OneShot(c) /\ Quiescent /\ Counted
          /\ \E owner \in UserIds, type \in ProblemTypes,
                statement \in {st \in CreateStatements : Len(st.localizedContents) # 1} :
                BeginCreateProblem(c, owner, type, statement, {})
    \/ \E c \in Calls : CreateJudgeInfo(c)
    \/ \E c \in Calls : CreateSample(c)
    \/ \E c \in Calls : CreateLocalizedContent(c)
    \/ \E c \in Calls : CreateSetProblemTags(c)
    \/ \E c \in Calls :
          /\ OneShot(c) /\ Quiescent /\ Counted
          /\ \E p \in ProblemIds, request \in WholeRequests :
                BeginUpdateProblemStatement(c, p, request, {})
    \/ \E c \in Calls : UpdateSamples(c)
    \/ \E c \in Calls : UpdateDeleteLocales(c)
    \/ \E c \in Calls : UpdateTitle(c)
    \/ \E c \in Calls : UpdateContent(c)
    \/ \E c \in Calls : UpdateSetProblemTags(c)
    \/ \E c \in Calls : UpdateSaveProblem(c)
    \/ \E c \in Calls : Commit(c)
    \/ \E c \in Calls : Rollback(c)
    \/ \E c \in Calls :
          /\ OneShot(c) /\ Quiescent /\ Counted
          /\ \E p \in ProblemIds, judgeInfo \in JudgeInfos :
                BeginUpdateProblemJudgeInfo(c, p, judgeInfo)
    \/ \E c \in Calls : UpdateProblemJudgeInfoFind(c)
    \/ \E c \in Calls : UpdateProblemJudgeInfoSave(c)
    \/ \E c \in Calls :
          /\ OneShot(c) /\ Quiescent /\ Counted
          /\ \E p \in ProblemIds, isPublic \in BOOLEAN : BeginSetProblemPublic(c, p, isPublic)
    \/ \E c \in Calls : SetProblemPublicSave(c)
    \/ \E c \in Calls :
          /\ OneShot(c) /\ Quiescent /\ Counted
          /\ \E p \in ProblemIds, displayId \in 0..MaxDisplayId :
                BeginSetProblemDisplayId(c, p, displayId)
    \/ \E c \in Calls : SetProblemDisplayIdSave(c)
    \/ \E c \in Calls : SetProblemDisplayIdCount(c)

SpecLife == InitLife /\ [][NextLife]_vars

\* updateProblemStatement called concurrently on the first problem, with the
\* requests of WholeRequests and no tags, on a store that holds the problems
\* without locales; no statement fails.
InitRace ==
    /\ permIn = PermIdle /\ permOut = "idle"
    /\ db = CHOOSE d \in CreatedDbs(MaxProblems) :
                \A p \in ProblemIds : d.problem[p].displayId = NULL
    /\ autoInc = MaxProblems + 1
    /\ calls = NoCalls /\ started = 0

NextRace ==
    \/ \E c \in Calls :
          /\ OneShot(c) /\ Counted
          /\ \E request \in WholeRequests : BeginUpdateProblemStatement(c, 1, request, {})
    \/ \E c \in Calls : UpdateSamples(c)
    \/ \E c \in Calls : UpdateDeleteLocales(c)
    \/ \E c \in Calls : UpdateTitle(c)
    \/ \E c \in Calls : UpdateContent(c)
    \/ \E c \in Calls : UpdateSetProblemTags(c)
    \/ \E c \in Calls : UpdateSaveProblem(c)
    \/ \E c \in Calls : Commit(c)

SpecRace == InitRace /\ [][NextRace]_vars

\* addProblemFile called concurrently for the first problem, on a store where
\* both files are uploaded and the key of filename "a" has no row or holds
\* the first file; no statement fails.
InitAttach ==
    /\ permIn = PermIdle /\ permOut = "idle"
    /\ \E held \in BOOLEAN :
          db = [CHOOSE d \in CreatedDbs(MaxProblems) :
                    \A p \in ProblemIds : d.problem[p].displayId = NULL
                EXCEPT !.file = [h \in Hashes |->
                                   [exists |-> TRUE,
                                    referenceCount |-> IF held /\ h = "h1" THEN 1 ELSE 0]],
                       !.problemFile[<<1, "TestData", "a">>] =
                           IF held THEN UuidOf("h1") ELSE Absent]
    /\ autoInc = MaxProblems + 1
    /\ calls = NoCalls /\ started = 0

NextAttach ==
    \/ \E c \in Calls :
          /\ OneShot(c) /\ Counted
          /\ \E sha256 \in Hashes, type \in ProblemFileTypes, filename \in Filenames :
                BeginAddProblemFile(c, 1, sha256, type, filename)
    \/ \E c \in Calls : AddProblemFileTryReference(c)
    \/ \E c \in Calls : AddProblemFileFind(c)
    \/ \E c \in Calls : AddProblemFileSave(c)
    \/ \E c \in Calls : Commit(c)

SpecAttach == InitAttach /\ [][NextAttach]_vars

\* A request of an actor for a mutation of a problem: the actor is anonymous,
\* the problem's owner or an admin, and the action is the one the mutation
\* needs.
GateInputs ==
    { [PermIdle EXCEPT !.user = user, !.type = type] :
        user \in {NoUser, [id |-> 1, isAdmin |-> FALSE], [id |-> 1, isAdmin |-> TRUE]},
        type \in {"MODIFY", "MANAGE_PUBLICNESS"} }

\* The service as its callers find it: userHasPermission next to the
\* mutations setProblemDisplayId and setProblemPublic, which take the entity
\* and no actor; nothing in the service orders the one before the others.
InitGate ==
    /\ permIn \in GateInputs /\ permOut = "pending"
    /\ db \in CreatedDbs(MaxProblems) /\ autoInc = MaxProblems + 1
    /\ calls = NoCalls /\ started = 0

NextGate ==
    \/ Resolve
    \/ \E c \in Calls :
          /\ Sequential(c) /\ UNCHANGED started
          /\ \E p \in ProblemIds, displayId \in 0..MaxDisplayId :
                BeginSetProblemDisplayId(c, p, displayId)
    \/ \E c \in Calls : SetProblemDisplayIdSave(c)
    \/ \E c \in Calls : SetProblemDisplayIdCount(c)
    \/ \E c \in Calls :
          /\ Sequential(c) /\ UNCHANGED started
          /\ \E p \in ProblemIds, isPublic \in BOOLEAN : BeginSetProblemPublic(c, p, isPublic)
    \/ \E c \in Calls : SetProblemPublicSave(c)

SpecGate == InitGate /\ [][NextGate]_vars

(***************************************************************************)
(* The rule lists of the permission table: per action an ordered list of   *)
(* (condition, verdict); the first rule whose condition holds decides, and *)
(* the action is denied when none does.                                    *)
(***************************************************************************)
RuleHolds(cond, in) ==
    CASE cond = "public" -> in.problem.isPublic
      [] cond = "noActor" -> in.user = NoUser
      [] cond = "owner" -> in.user # NoUser /\ in.user.id = in.problem.ownerId
      [] cond = "ownerMayManagePermission" ->
           /\ in.user # NoUser /\ in.user.id = in.problem.ownerId
           /\ in.preference.allowOwnerManageProblemPermission
      [] cond = "ownerMayDelete" ->
           /\ in.user # NoUser /\ in.user.id = in.problem.ownerId
           /\ in.preference.allowOwnerDeleteProblem
      [] cond = "admin" -> in.user # NoUser /\ in.user.isAdmin
      [] cond = "privilege" -> in.user # NoUser /\ in.user.id \in in.privileged
      [] cond = "aclRead" ->
           in.aclUser \in {READ, WRITE} \/ \E g \in DOMAIN in.aclGroups : in.aclGroups[g] \in {READ, WRITE}
      [] cond = "aclWrite" ->
           in.aclUser = WRITE \/ \E g \in DOMAIN in.aclGroups : in.aclGroups[g] = WRITE

RuleTable(type) ==
    CASE type = "VIEW" ->
           << <<"public", TRUE>>, <<"noActor", FALSE>>, <<"owner", TRUE>>, <<"admin", TRUE>>,
              <<"privilege", TRUE>>, <<"aclRead", TRUE>> >>
      [] type = "MODIFY" ->
           << <<"noActor", FALSE>>, <<"owner", TRUE>>, <<"admin", TRUE>>, <<"privilege", TRUE>>,
              <<"aclWrite", TRUE>> >>
      [] type = "MANAGE_PERMISSION" ->
           << <<"noActor", FALSE>>, <<"ownerMayManagePermission", TRUE>>, <<"admin", TRUE>>,
              <<"privilege", TRUE>> >>
      [] type = "MANAGE_PUBLICNESS" ->
           << <<"noActor", FALSE>>, <<"admin", TRUE>>, <<"privilege", TRUE>> >>
      [] type = "DELETE" ->
           << <<"noActor", FALSE>>, <<"ownerMayDelete", TRUE>>, <<"admin", TRUE>>,
              <<"privilege", TRUE>> >>

FirstMatch(rules, in) ==
    LET hits == {k \in 1..Len(rules) : RuleHolds(rules[k][1], in)}
    IN  IF hits = {} THEN FALSE
        ELSE rules[CHOOSE k \in hits : \A j \in hits : k <= j][2]

Resolved == permOut # "pending"
Allowed == permOut = "allow"
IsOwner == permIn.user # NoUser /\ permIn.user.id = permIn.problem.ownerId
IsAdmin == permIn.user # NoUser /\ permIn.user.isAdmin
IsPrivileged == permIn.user # NoUser /\ permIn.user.id \in permIn.privileged
NoAclEntries == permIn.aclUser = 0 /\ \A g \in DOMAIN permIn.aclGroups : permIn.aclGroups[g] = 0

\* C8: for every action and every combination of actor, ownership, admin flag,
\* privilege, ACL levels, publicness and policy flags, the resolver's result is
\* the verdict of the first matching rule of that action's rule list.
C8_ResolverFollowsRuleTable ==
    Resolved => (Allowed <=> FirstMatch(RuleTable(permIn.type), permIn))

\* C8 witness: an owner asks for MANAGE_PERMISSION while the policy flag is off
\* and no later rule applies, and has been denied.
C8_Witness ==
    /\ Resolved /\ ~Allowed
    /\ permIn.type = "MANAGE_PERMISSION"
    /\ IsOwner /\ ~IsAdmin /\ ~IsPrivileged
    /\ ~permIn.preference.allowOwnerManageProblemPermission

\* C9: on a non-public problem with no ACL entries an anonymous actor is denied
\* VIEW and MODIFY, the owner (holding no admin flag and no privilege) is allowed
\* MODIFY and denied MANAGE_PUBLICNESS, and an admin is allowed all five actions
\* under every setting of the policy flags.
C9_PermissionMatrix ==
    (Resolved /\ ~permIn.problem.isPublic /\ NoAclEntries) =>
        /\ (permIn.user = NoUser /\ permIn.type \in {"VIEW", "MODIFY"}) => ~Allowed
        /\ (IsOwner /\ permIn.type = "MODIFY") => Allowed
        /\ (IsOwner /\ ~IsAdmin /\ ~IsPrivileged /\ permIn.type = "MANAGE_PUBLICNESS") => ~Allowed
        /\ IsAdmin => Allowed

\* C9 witness: the plain owner of a non-public problem without ACL entries has
\* been denied MANAGE_PUBLICNESS.
C9_Witness ==
    /\ Resolved /\ ~Allowed /\ ~permIn.problem.isPublic /\ NoAclEntries
    /\ IsOwner /\ ~IsAdmin /\ ~IsPrivileged
    /\ permIn.type = "MANAGE_PUBLICNESS"

\* C10: MANAGE_PUBLICNESS is allowed only to an admin or a holder of the global
\* privilege, whatever the ownership, ACL entries, publicness and policy flags.
C10_PublicnessOnlyAdminOrPrivilege ==
    (Resolved /\ permIn.type = "MANAGE_PUBLICNESS" /\ Allowed) => (IsAdmin \/ IsPrivileged)

\* C10 witness: an owner holding a WRITE entry on a public problem, with both
\* owner policy flags on, has been denied MANAGE_PUBLICNESS.
C10_Witness ==
    /\ Resolved /\ ~Allowed /\ permIn.type = "MANAGE_PUBLICNESS"
    /\ IsOwner /\ ~IsAdmin /\ ~IsPrivileged
    /\ permIn.aclUser = WRITE /\ permIn.problem.isPublic
    /\ permIn.preference.allowOwnerManageProblemPermission
    /\ permIn.preference.allowOwnerDeleteProblem

(***************************************************************************)
(* Permission before mutation: C11.                                        *)
(***************************************************************************)
\* C11: every mutation calls the permission resolver before its first write to
\* the store and writes nothing when the resolver denies the actor: the store
\* changes only once the resolver has allowed the request.
C11_ResolverBeforeWrite == [][db' # db => permOut = "allow"]_vars

(***************************************************************************)
(* Statement transactions: C1, C2, C7.                                     *)
(***************************************************************************)
\* What a reader sees of problem p's statement in store d.
StatementState(d, p) ==
    [ localized |-> [k \in {kk \in LocalizedKeys : kk[1] = p} |-> d.localized[k]],
      sample |-> d.sample[p],
      tags |-> {m \in d.tagMap : m[1] = p},
      locales |-> d.problem[p].locales ]

\* The store after an updateStatement applied as one indivisible step.
AtomicUpdate(d, p, request, tags) ==
    LET contents == request.localizedContents
        newLocales == Range(LocalesOf(contents))
        oldLocales == Range(d.problem[p].locales)
        EntryOf(l) == contents[CHOOSE k \in DOMAIN contents : contents[k].locale = l]
        Row(type, l) ==
            LET old == d.localized[<<p, type, l>>]
                new == IF type = "PROBLEM_TITLE" THEN EntryOf(l).title
                       ELSE IF EntryOf(l).contentSections = Null THEN Null
                       ELSE JSONstringify(EntryOf(l).contentSections)
            IN  IF l \notin newLocales THEN (IF l \in oldLocales THEN Absent ELSE old)
                ELSE IF new = Null THEN old ELSE new
    IN  [d EXCEPT !.localized = [k \in LocalizedKeys |-> IF k[1] = p THEN Row(k[2], k[3]) ELSE @[k]],
                  !.sample[p] = IF request.samples = Null THEN @ ELSE request.samples,
                  !.tagMap = {m \in @ : m[1] # p} \cup {<<p, t>> : t \in tags},
                  !.problem[p].locales = LocalesOf(contents)]

\* C1: an updateStatement that fails at any step leaves the problem's
\* localized rows, sample, tag associations and stored locales exactly as they
\* were before the call.
C1_UpdateStatementAllOrNothing ==
    \A c \in Calls :
        (calls[c].op = "updateProblemStatement" /\ calls[c].ret = "error") =>
            StatementState(db, calls[c].problem.id) = StatementState(calls[c].pre, calls[c].problem.id)

\* The locales of problem p for which both a title row and a content row exist.
LocalesWithRows(d, p) ==
    {l \in Locales : /\ d.localized[<<p, "PROBLEM_TITLE", l>>] # Absent
                     /\ d.localized[<<p, "PROBLEM_CONTENT", l>>] # Absent}

\* C2: with no call in flight, the stored locales of every problem are exactly
\* the locales that have both a title row and a content row.
C2_LocalesMatchRows ==
    Quiescent => \A p \in Existing(db) : Range(db.problem[p].locales) = LocalesWithRows(db, p)

\* C7: while an updateStatement is in progress a reader sees the problem's
\* localized rows, locales and tags either as they were before the call or as
\* the call leaves them, never a mixture.
C7_ReaderSeesBeforeOrAfter ==
    \A c \in Calls :
        (calls[c].op = "updateProblemStatement" /\ InFlight(c)) =>
            LET p == calls[c].problem.id
                seen == StatementState(db, p)
            IN  \/ seen = StatementState(calls[c].pre, p)
                \/ seen = StatementState(AtomicUpdate(calls[c].pre, p, calls[c].req.request,
                                                      calls[c].req.tags), p)

(***************************************************************************)
(* Display ids: C3, C4, C5.                                                *)
(***************************************************************************)
Holders(d, displayId) == {q \in Existing(d) : d.problem[q].displayId = displayId}

\* C3: in every reachable state at most one problem holds a given non-null
\* display id.
C3_DisplayIdUnique ==
    \A p, q \in Existing(db) :
        (p # q /\ db.problem[p].displayId # NULL) => db.problem[p].displayId # db.problem[q].displayId

\* C3 witness: a setProblemDisplayId asked for an id another problem holds, was
\* refused by the store and has returned false.
C3_Witness ==
    \E c \in Calls :
        /\ calls[c].op = "setProblemDisplayId" /\ calls[c].e = "unique" /\ calls[c].ret = "false"
        /\ Holders(db, calls[c].problem.displayId) # {}
        /\ calls[c].problem.id \notin Holders(db, calls[c].problem.displayId)

\* Calls a and b are the only calls made, both setProblemDisplayId with the
\* same non-null id on different problems; no third problem holds the id and
\* the store has not failed for another reason.
RaceOfTwo(a, b) ==
    /\ a # b
    /\ calls[a].op = "setProblemDisplayId" /\ calls[b].op = "setProblemDisplayId"
    /\ calls[a].req.displayId = calls[b].req.displayId /\ calls[a].req.displayId # 0
    /\ calls[a].problem.id # calls[b].problem.id
    /\ \A c \in Calls \ {a, b} : calls[c].op = "none"
    /\ Holders(db, calls[a].req.displayId) \subseteq {calls[a].problem.id, calls[b].problem.id}
    /\ calls[a].e # "other" /\ calls[b].e # "other"

\* C4: when two setProblemDisplayId calls give the same non-null id to two
\* different problems, once both have returned exactly one has returned true and
\* the other false, and exactly one problem holds the id.
C4_RaceHasOneWinner ==
    \A a, b \in Calls :
        (RaceOfTwo(a, b) /\ calls[a].ret # "pending" /\ calls[b].ret # "pending") =>
            /\ {calls[a].ret, calls[b].ret} = {"true", "false"}
            /\ Cardinality(Holders(db, calls[a].req.displayId)) = 1

\* C4 witness: the race has been run and the call made second has won it: the
\* call made first was still in flight when the winner wrote its row, and was
\* then refused by the unique index.
C4_Witness ==
    \E a, b \in Calls :
        /\ RaceOfTwo(a, b) /\ a > b
        /\ calls[a].ret = "true" /\ calls[b].ret = "false" /\ calls[b].e = "unique"
        /\ db.problem[calls[a].problem.id] = calls[a].problem
        /\ db.problem[calls[b].problem.id].displayId = NULL

\* C5: setProblemDisplayId returns false exactly when its save was refused
\* because another problem holds the id: every such refusal gives false, and a
\* save that failed for another reason gives an error, never false.
C5_FalseIffUniqueViolation ==
    \A c \in Calls :
        (calls[c].op = "setProblemDisplayId" /\ calls[c].ret # "pending") =>
            /\ (calls[c].ret = "false") <=> (calls[c].e = "unique")
            /\ (calls[c].e = "other") => (calls[c].ret = "error")

(***************************************************************************)
(* File references: C6.                                                    *)
(***************************************************************************)
RowsHolding(d, uuid) == {k \in ProblemFileKeys : d.problemFile[k] = uuid}

\* C6: after any sequence of attach and detach calls, each of which may be
\* rolled back at any step, every file's reference count is the number of
\* committed problem file rows holding its handle.
C6_ReferenceCountMatchesRows ==
    \A h \in Hashes : db.file[h].referenceCount = Cardinality(RowsHolding(db, UuidOf(h)))

\* C6 witness: two committed rows hold one file, and an attach of another file
\* over one of them was rolled back at its commit, after it had taken the new
\* reference and given the old one back.
C6_Witness ==
    \E c \in Calls :
        LET old == calls[c].pre.problemFile[calls[c].req.key]
        IN  /\ calls[c].op = "addProblemFile" /\ calls[c].ret = "error"
            /\ calls[c].at = "commit"
            /\ old \notin {Absent, calls[c].req.uuid}
            /\ Cardinality(RowsHolding(db, old)) = 2
            /\ db.file[calls[c].req.sha256].exists

(***************************************************************************)
(* createProblem: C12.                                                     *)
(***************************************************************************)
\* The rows a createProblem call writes, as they are in store d.
CreatedRows(d, call) ==
    LET id == call.problem.id
    IN  [ problem |-> d.problem[id], judgeInfo |-> d.judgeInfo[id], sample |-> d.sample[id],
          localized |-> [k \in {kk \in LocalizedKeys : kk[1] = id} |-> d.localized[k]],
          tags |-> {m \in d.tagMap : m[1] = id} ]

\* The rows a successful createProblem call leaves.
ExpectedCreatedRows(call) ==
    LET id == call.problem.id
        contents == call.req.statement.localizedContents
        EntryOf(l) == contents[CHOOSE k \in DOMAIN contents : contents[k].locale = l]
    IN  [ problem |-> call.problem,
          judgeInfo |-> getDefaultJudgeInfo(call.problem.type),
          sample |-> call.req.statement.samples,
          localized |-> [k \in {kk \in LocalizedKeys : kk[1] = id} |->
                           IF k[3] \notin Range(LocalesOf(contents)) THEN Absent
                           ELSE IF k[2] = "PROBLEM_TITLE" THEN EntryOf(k[3]).title
                           ELSE JSONstringify(EntryOf(k[3]).contentSections)],
          tags |-> {<<id, t>> : t \in call.req.tags} ]

\* C12: createProblem is atomic: while it runs and when it has failed at any
\* step the store holds no row it wrote, and when it has succeeded the problem
\* row, the judge info, the sample, every title and content and the tag
\* associations are all there.
C12_CreateIsAtomic ==
    \A c \in Calls :
        calls[c].op = "createProblem" =>
            /\ (InFlight(c) \/ calls[c].ret = "error") => db = calls[c].pre
            /\ calls[c].ret = "problem" =>
                  /\ CreatedRows(db, calls[c]) = ExpectedCreatedRows(calls[c])
                  /\ CreatedRows(calls[c].pre, calls[c]) =
                        CreatedRows(EmptyDb, calls[c])

\* C12 witness: a createProblem with two locales and a tag has failed at its
\* commit, after all its rows were written in the transaction, on a store that
\* holds another problem.
C12_Witness ==
    \E c \in Calls :
        /\ calls[c].op = "createProblem" /\ calls[c].ret = "error" /\ calls[c].at = "commit"
        /\ Len(calls[c].req.statement.localizedContents) = 2
        /\ calls[c].req.tags # {}
        /\ Existing(db) # {}

(***************************************************************************)
(* updateProblemStatement, field by field: C13.                            *)
(***************************************************************************)
\* C13: after an updateStatement that succeeded, every requested locale has the
\* supplied title and content where they were given and keeps the stored ones
\* where the field was null, every locale the problem had and the request
\* omits has neither row left, and the stored locales are the request's.
C13_PartialFieldUpdate ==
    \A c \in Calls :
        (calls[c].op = "updateProblemStatement" /\ calls[c].ret = "true") =>
            LET p == calls[c].problem.id
                pre == calls[c].pre
                contents == calls[c].req.request.localizedContents
            IN  /\ \A k \in DOMAIN contents :
                      LET entry == contents[k]
                          title == <<p, "PROBLEM_TITLE", entry.locale>>
                          content == <<p, "PROBLEM_CONTENT", entry.locale>>
                      IN  /\ db.localized[title] =
                                IF entry.title # Null THEN entry.title ELSE pre.localized[title]
                          /\ db.localized[content] =
                                IF entry.contentSections # Null
                                THEN JSONstringify(entry.contentSections)
                                ELSE pre.localized[content]
                /\ \A l \in Range(pre.problem[p].locales) \ Range(LocalesOf(contents)) :
                      /\ db.localized[<<p, "PROBLEM_TITLE", l>>] = Absent
                      /\ db.localized[<<p, "PROBLEM_CONTENT", l>>] = Absent
                /\ db.problem[p].locales = LocalesOf(contents)

\* C13 witness: a problem created with en and zh was updated with the single
\* entry en, title given and content null: the en title is the new one, the
\* en content the one of the creation, zh is gone and the locales are en.
C13_Witness ==
    \E c \in Calls :
        LET p == calls[c].problem.id
        IN  /\ calls[c].op = "updateProblemStatement" /\ calls[c].ret = "true"
            /\ calls[c].pre.problem[p].locales = <<"en", "zh">>
            /\ calls[c].req.request.localizedContents =
                  << [locale |-> "en", title |-> "t2", contentSections |-> Null] >>
            /\ db.localized[<<p, "PROBLEM_TITLE", "en">>] = "t2"
            /\ db.localized[<<p, "PROBLEM_CONTENT", "en">>] = JSONstringify("c1")
            /\ db.localized[<<p, "PROBLEM_TITLE", "zh">>] = Absent
            /\ db.localized[<<p, "PROBLEM_CONTENT", "zh">>] = Absent
            /\ calls[c].pre.localized[<<p, "PROBLEM_CONTENT", "zh">>] # Absent
            /\ db.problem[p].locales = <<"en">>

(***************************************************************************)
(* Problem files: C14, C15, C16, C17.                                      *)
(***************************************************************************)
\* The reference counts of store d.
ReferenceCounts(d) == [h \in Hashes |-> d.file[h].referenceCount]

\* C14: an attach of a hash the file store has no content for leaves every
\* problem file row and every reference count as before the call and, unless
\* the storage itself failed, returns false.
C14_AttachUnknownHash ==
    \A c \in Calls :
        (/\ calls[c].op = "addProblemFile" /\ calls[c].ret # "pending"
         /\ ~calls[c].pre.file[calls[c].req.sha256].exists) =>
            /\ db.problemFile = calls[c].pre.problemFile
            /\ db.file = calls[c].pre.file
            /\ calls[c].e = "none" => calls[c].ret = "false"

\* C14 witness: the attach of an unknown hash at a key that holds a row has
\* returned false.
C14_Witness ==
    \E c \in Calls :
        /\ calls[c].op = "addProblemFile" /\ calls[c].ret = "false"
        /\ ~calls[c].pre.file[calls[c].req.sha256].exists
        /\ db.problemFile[calls[c].req.key] # Absent

\* C15: a successful attach at a key leaves the row of that key holding the
\* handle of the attached hash and every other row as it was; the count of the
\* attached hash is one more, the count of the hash the row held before is one
\* less, and no other count changes.
C15_AttachReplaces ==
    \A c \in Calls :
        (calls[c].op = "addProblemFile" /\ calls[c].ret = "true") =>
            LET key == calls[c].req.key
                pre == calls[c].pre
                old == pre.problemFile[key]
                Delta(h) == (IF h = calls[c].req.sha256 THEN 1 ELSE 0)
                            - (IF old # Absent /\ old = UuidOf(h) THEN 1 ELSE 0)
            IN  /\ db.problemFile = [pre.problemFile EXCEPT ![key] = UuidOf(calls[c].req.sha256)]
                /\ \A h \in Hashes :
                      db.file[h].referenceCount = pre.file[h].referenceCount + Delta(h)

\* C15 witness: h2 has been attached at a key whose row held h1: the row holds
\* h2, h1 has one reference less and h2 one more.
C15_Witness ==
    \E c \in Calls :
        LET key == calls[c].req.key
            pre == calls[c].pre
        IN  /\ calls[c].op = "addProblemFile" /\ calls[c].ret = "true"
            /\ calls[c].req.sha256 = "h2"
            /\ pre.problemFile[key] = UuidOf("h1")
            /\ db.problemFile[key] = UuidOf("h2")
            /\ db.file["h1"].referenceCount = pre.file["h1"].referenceCount - 1
            /\ db.file["h2"].referenceCount = pre.file["h2"].referenceCount + 1

\* The number of problem file rows of store d.
RowCount(d) == Cardinality({k \in ProblemFileKeys : d.problemFile[k] # Absent})

\* C16: unless the storage itself failed, rename returns false and changes
\* nothing when there is no row at the old key, and otherwise returns true,
\* with as many rows as before, the row at the new filename holding the handle
\* the old row held, no row at the old filename and no reference count changed.
C16_Rename ==
    \A c \in Calls :
        (calls[c].op = "renameProblemFile" /\ calls[c].ret # "pending" /\ calls[c].e # "other") =>
            LET pre == calls[c].pre
                key == calls[c].req.key
                newKey == calls[c].req.newKey
            IN  IF pre.problemFile[key] = Absent
                THEN calls[c].ret = "false" /\ db = pre
                ELSE /\ calls[c].ret = "true"
                     /\ RowCount(db) = RowCount(pre)
                     /\ db.problemFile[newKey] = pre.problemFile[key]
                     /\ db.problemFile[key] = Absent
                     /\ db.file = pre.file

\* C16 as amended: the row moves when the new filename is another one and is
\* free; a rename to the same filename returns true and changes nothing; a
\* rename to a filename that has a row raises an error and changes nothing; a
\* failed storage changes nothing either.
C16_RenameToFreeName ==
    \A c \in Calls :
        (calls[c].op = "renameProblemFile" /\ calls[c].ret # "pending") =>
            LET pre == calls[c].pre
                key == calls[c].req.key
                newKey == calls[c].req.newKey
            IN  IF calls[c].e = "other" THEN calls[c].ret = "error" /\ db = pre
                ELSE IF pre.problemFile[key] = Absent THEN calls[c].ret = "false" /\ db = pre
                ELSE IF newKey = key THEN calls[c].ret = "true" /\ db = pre
                ELSE IF pre.problemFile[newKey] # Absent THEN calls[c].ret = "error" /\ db = pre
                ELSE /\ calls[c].ret = "true"
                     /\ db.problemFile = [pre.problemFile EXCEPT ![key] = Absent,
                                                               ![newKey] = pre.problemFile[key]]
                     /\ RowCount(db) = RowCount(pre)
                     /\ db.file = pre.file

\* C16 witness: a row has been renamed to a free filename while another row
\* holds the same file.
C16_Witness ==
    \E c \in Calls :
        LET pre == calls[c].pre
            key == calls[c].req.key
            newKey == calls[c].req.newKey
        IN  /\ calls[c].op = "renameProblemFile" /\ calls[c].ret = "true"
            /\ newKey # key /\ pre.problemFile[key] # Absent /\ pre.problemFile[newKey] = Absent
            /\ db.problemFile[newKey] = pre.problemFile[key]
            /\ db.file[HashOf(pre.problemFile[key])].referenceCount = 2

\* C17: a detach that has completed has deleted the row of every listed
\* filename that had one and no other row, and every file has as many
\* references less as listed filenames had a row holding it: one per row,
\* none for a filename without a row or for a filename listed again.
C17_DetachOncePerRow ==
    \A c \in Calls :
        (calls[c].op = "removeProblemFiles" /\ calls[c].ret = "void") =>
            LET pre == calls[c].pre
                listed == {<<calls[c].problem.id, calls[c].req.type, f>> :
                             f \in Range(calls[c].req.filenames)}
            IN  /\ db.problemFile = [k \in ProblemFileKeys |->
                                       IF k \in listed THEN Absent ELSE pre.problemFile[k]]
                /\ \A h \in Hashes :
                      db.file[h].referenceCount =
                        pre.file[h].referenceCount
                          - Cardinality({k \in listed : pre.problemFile[k] = UuidOf(h)})

\* C17 witness: a detach listing the same filename twice has removed its row
\* and given back one of the two references of the file.
C17_Witness ==
    \E c \in Calls :
        LET pre == calls[c].pre
            key == <<calls[c].problem.id, calls[c].req.type, "a">>
        IN  /\ calls[c].op = "removeProblemFiles" /\ calls[c].ret = "void"
            /\ calls[c].req.filenames = <<"a", "a">>
            /\ pre.problemFile[key] # Absent
            /\ pre.file[HashOf(pre.problemFile[key])].referenceCount = 2
            /\ db.file[HashOf(pre.problemFile[key])].referenceCount = 1
            /\ db.problemFile[key] = Absent

(***************************************************************************)
(* setProblemTags: C18.                                                    *)
(***************************************************************************)
TagsOf(d, p) == {m[2] : m \in {mm \in d.tagMap : mm[1] = p}}
OtherTags(d, p) == {m \in d.tagMap : m[1] # p}
InsertsOf(log) == {k \in DOMAIN log : log[k].w = "tagMapInsert"}

\* C18: once setProblemTags has run in a call's transaction, and once the call
\* has committed, the associations of the problem are one per given tag,
\* whatever they were before, and those of every other problem are as before;
\* with no tag given the transaction holds no insert.
C18_ReplaceTags ==
    \A c \in Calls :
        calls[c].op = "updateProblemStatement" =>
            LET p == calls[c].problem.id
                tags == calls[c].req.tags
            IN  /\ (InFlight(c) /\ calls[c].pc \in {"saveProblem", "commit"}) =>
                      /\ TagsOf(TxView(c), p) = tags
                      /\ OtherTags(TxView(c), p) = OtherTags(calls[c].pre, p)
                      /\ tags = {} => InsertsOf(calls[c].log) = {}
                /\ calls[c].ret = "true" =>
                      /\ TagsOf(db, p) = tags
                      /\ OtherTags(db, p) = OtherTags(calls[c].pre, p)

\* C18 witness: a problem that had the tags 1 and 2 was given the tag list
\* with tag 2 only, and then holds that tag alone, while another problem has
\* kept its tags.
C18_Witness ==
    \E c \in Calls :
        LET p == calls[c].problem.id
        IN  /\ calls[c].op = "updateProblemStatement" /\ calls[c].ret = "true"
            /\ TagsOf(calls[c].pre, p) = {1, 2}
            /\ calls[c].req.tags = {2}
            /\ TagsOf(db, p) = {2}
            /\ OtherTags(db, p) # {}

(***************************************************************************)
(* updateProblemStatistics: C19.                                           *)
(***************************************************************************)
\* The sum of a delta over the updateProblemStatistics calls in S on problem p.
RECURSIVE SumOfDeltas(_, _, _)
SumOfDeltas(S, p, delta) ==
    IF S = {} THEN 0
    ELSE LET c == CHOOSE x \in S : TRUE
         IN  (IF calls[c].op = "updateProblemStatistics" /\ calls[c].problem.id = p
              THEN calls[c].req[delta] ELSE 0)
             + SumOfDeltas(S \ {c}, p, delta)

\* C19: once all the concurrent updateProblemStatistics calls have completed,
\* each counter of each problem is its initial value, zero, plus the sum of
\* the deltas the calls gave for it.
C19_NoLostIncrement ==
    (\A c \in Calls : calls[c].op = "none" \/ calls[c].ret = "void") =>
        \A p \in ProblemIds :
            /\ db.problem[p].submissionCount = SumOfDeltas(Calls, p, "incSubmissionCount")
            /\ db.problem[p].acceptedSubmissionCount =
                  SumOfDeltas(Calls, p, "incAcceptedSubmissionCount")

\* C19 witness: two calls on one problem, each begun before the other had
\* written, have completed, and the counters hold both calls' deltas.
C19_Witness ==
    \E a, b \in Calls :
        /\ a # b
        /\ calls[a].op = "updateProblemStatistics" /\ calls[a].ret = "void"
        /\ calls[b].op = "updateProblemStatistics" /\ calls[b].ret = "void"
        /\ calls[a].problem.id = calls[b].problem.id
        /\ calls[a].req.incSubmissionCount = 1 /\ calls[b].req.incSubmissionCount = 1
        /\ calls[a].req.incAcceptedSubmissionCount = 1
        /\ calls[b].req.incAcceptedSubmissionCount = 0
        /\ calls[a].pre = calls[b].pre
        /\ db.problem[calls[a].problem.id].submissionCount = 2
        /\ db.problem[calls[a].problem.id].acceptedSubmissionCount = 1

(***************************************************************************)
(* setProblemDisplayId repeated: C20.                                      *)
(***************************************************************************)
\* Call c is a setProblemDisplayId that asks for the display id its entity
\* has: the same id again, or 0 (no id) on an entity without a display id.
AsksForSameDisplayId(c) ==
    /\ calls[c].op = "setProblemDisplayId" /\ calls[c].pc = "save"
    /\ \/ calls[c].req.displayId # 0 /\ calls[c].problem.displayId = calls[c].req.displayId
       \/ calls[c].req.displayId = 0 /\ calls[c].problem.displayId = NULL

\* C20: a setProblemDisplayId that asks for the display id the entity has
\* (as after a first call with that id that returned true, or 0 on a problem
\* without display id) returns true in its one step and does not write.
C20_RepeatIsNoOp ==
    [][\A c \in Calls :
          (AsksForSameDisplayId(c) /\ calls'[c] # calls[c]) =>
              /\ calls'[c].ret = "true"
              /\ db' = db]_vars

\* C20 witness: two calls made one after the other for the same problem and
\* the same non-null id have both returned true, the second on the entity as
\* the first left it, and the problem holds the id.
C20_Witness ==
    \E a, b \in Calls :
        /\ a < b
        /\ calls[a].op = "setProblemDisplayId" /\ calls[b].op = "setProblemDisplayId"
        /\ calls[a].req.displayId # 0 /\ calls[a].req = calls[b].req
        /\ calls[a].problem = calls[b].problem
        /\ calls[a].ret = "true" /\ calls[b].ret = "true"
        /\ db.problem[calls[a].problem.id] = calls[a].problem
        /\ \A q \in Existing(db) : q # calls[a].problem.id => db.problem[q].displayId = NULL

(***************************************************************************)
(* Monotone permission decisions: C26.                                     *)
(***************************************************************************)
\* C26: for every actor, problem, ACL setting and policy flags, a request that
\* was allowed MODIFY is one that VIEW is allowed for, the ACL check taking a
\* WRITE grant for a READ requirement.
C26_ModifyImpliesView ==
    (Resolved /\ permIn.type = "MODIFY" /\ Allowed) => userHasPermission(permIn, "VIEW")

\* C26 witness: an actor who is neither owner, admin nor privileged has been
\* allowed MODIFY on a non-public problem through a WRITE grant alone, nobody
\* holding a READ grant.
C26_Witness ==
    /\ Resolved /\ Allowed /\ permIn.type = "MODIFY"
    /\ permIn.user # NoUser /\ ~IsOwner /\ ~IsAdmin /\ ~IsPrivileged
    /\ ~permIn.problem.isPublic
    /\ permIn.aclUser # READ /\ \A g \in DOMAIN permIn.aclGroups : permIn.aclGroups[g] # READ

(***************************************************************************)
(* setProblemDisplayId that did not succeed: C25.                          *)
(***************************************************************************)
\* C25: a setProblemDisplayId that returned false or raised an error left the
\* problem as it was: the entity the caller loaded and passed still equals the
\* stored row, and the same call made again with that entity, the conflict
\* still there, returns false again.
C25_FailureLeavesProblem ==
    \A c \in Calls :
        (calls[c].op = "setProblemDisplayId" /\ calls[c].pc = "done") =>
            /\ (calls[c].pre = NoCall.pre /\ calls[c].ret \in {"false", "error"}) =>
                   calls[c].problem = db.problem[calls[c].problem.id]
            /\ calls[c].pre = [ret |-> "false"] => calls[c].ret = "false"

(***************************************************************************)
(* Whole-row saves and their frame: C24.                                   *)
(***************************************************************************)
\* C24: a step of updateProblemStatement, setProblemPublic or
\* setProblemDisplayId changes, in the stored problem rows, only the attribute
\* the operation is about: the counters are kept, and so are isPublic and
\* displayId unless the operation is the one that sets them, also when other
\* calls changed the row after the caller loaded its entity.
C24_SavesOnlyOwnAttributes ==
    [][\A c \in Calls :
          (/\ calls[c].op \in {"updateProblemStatement", "setProblemPublic", "setProblemDisplayId"}
           /\ calls'[c] # calls[c]) =>
              \A p \in Existing(db) :
                  /\ db'.problem[p].submissionCount = db.problem[p].submissionCount
                  /\ db'.problem[p].acceptedSubmissionCount = db.problem[p].acceptedSubmissionCount
                  /\ calls[c].op # "setProblemPublic" =>
                         db'.problem[p].isPublic = db.problem[p].isPublic
                  /\ calls[c].op # "setProblemDisplayId" =>
                         db'.problem[p].displayId = db.problem[p].displayId]_vars

(***************************************************************************)
(* What createProblem leaves and what stays: C22.                          *)
(***************************************************************************)
\* C22: the step that commits a createProblem leaves a problem with displayId
\* null, isPublic false, the caller as owner, the type given, the locales of
\* the statement's entries, a judge info row with the type's default and a
\* sample row with the statement's samples; and no step changes the type or
\* the owner of a stored problem or removes its judge info or sample row.
C22_CreatedProblemAndItsKeeps ==
    [][/\ \A c \in Calls :
            (calls[c].op = "createProblem" /\ InFlight(c) /\ calls'[c].ret = "problem") =>
                LET id == calls[c].problem.id
                    req == calls[c].req
                IN  /\ db.problem[id] = NoRow
                    /\ db'.problem[id] # NoRow
                    /\ db'.problem[id].displayId = NULL
                    /\ db'.problem[id].isPublic = FALSE
                    /\ db'.problem[id].ownerId = req.owner
                    /\ db'.problem[id].type = req.type
                    /\ db'.problem[id].locales = LocalesOf(req.statement.localizedContents)
                    /\ db'.judgeInfo[id] = getDefaultJudgeInfo(req.type)
                    /\ db'.sample[id] = req.statement.samples
       /\ \A p \in Existing(db) :
            /\ db'.problem[p] # NoRow
            /\ db'.problem[p].type = db.problem[p].type
            /\ db'.problem[p].ownerId = db.problem[p].ownerId
            /\ db.judgeInfo[p] # Absent => db'.judgeInfo[p] # Absent
            /\ db.sample[p] # Absent => db'.sample[p] # Absent]_vars

\* C22 witness: a problem created by the second user with a statement in two
\* locales has since had its judge info replaced by updateProblemJudgeInfo: it
\* has its owner and type, a judge info row that is not the default any more,
\* and its sample row.
C22_Witness ==
    \E a, b \in Calls :
        /\ a < b
        /\ calls[a].op = "createProblem" /\ calls[a].ret = "problem"
        /\ calls[a].req.owner = 2
        /\ Len(calls[a].req.statement.localizedContents) = 2
        /\ calls[b].op = "updateProblemJudgeInfo" /\ calls[b].ret = "void"
        /\ calls[b].problem.id = calls[a].problem.id
        /\ db.problem[calls[a].problem.id].ownerId = 2
        /\ db.problem[calls[a].problem.id].type = calls[a].req.type
        /\ db.judgeInfo[calls[a].problem.id] \in JudgeInfos
        /\ db.sample[calls[a].problem.id] = calls[a].req.statement.samples

(***************************************************************************)
(* Two updateProblemStatement calls at once: C21.                          *)
(***************************************************************************)
\* C21: when two updateProblemStatement calls on the same problem have both
\* committed, and no other call was made, the problem's localized rows, stored
\* locales, sample and tag associations are those of the two calls applied one
\* after the other, each as a whole, in one of the two orders.
C21_LastWriterWins ==
    \A a, b \in Calls :
        (/\ a < b
         /\ calls[a].op = "updateProblemStatement" /\ calls[b].op = "updateProblemStatement"
         /\ calls[a].problem.id = calls[b].problem.id
         /\ calls[a].ret = "true" /\ calls[b].ret = "true"
         /\ \A c \in Calls \ {a, b} : calls[c].op = "none") =>
            LET p == calls[a].problem.id
                Then(d, call) == AtomicUpdate(d, p, call.req.request, call.req.tags)
            IN  StatementState(db, p) \in
                    { StatementState(Then(Then(calls[a].pre, calls[a]), calls[b]), p),
                      StatementState(Then(Then(calls[a].pre, calls[b]), calls[a]), p) }

(***************************************************************************)
(* Two addProblemFile calls at once: C23.                                  *)
(***************************************************************************)
\* C23: when two addProblemFile calls for the same key have both returned
\* true, and no other call was made, the key has its one row, the file the key
\* held before (when neither call attached that file) has one reference less
\* than before, and every file's reference count is the number of rows
\* holding its handle.
C23_ConcurrentAttach ==
    \A a, b \in Calls :
        (/\ a < b
         /\ calls[a].op = "addProblemFile" /\ calls[b].op = "addProblemFile"
         /\ calls[a].req.key = calls[b].req.key
         /\ calls[a].ret = "true" /\ calls[b].ret = "true"
         /\ \A c \in Calls \ {a, b} : calls[c].op = "none") =>
            LET key == calls[a].req.key
                old == calls[a].pre.problemFile[key]
            IN  /\ db.problemFile[key] \in {calls[a].req.uuid, calls[b].req.uuid}
                /\ (old \notin {Absent, calls[a].req.uuid, calls[b].req.uuid}) =>
                       db.file[HashOf(old)].referenceCount =
                           calls[a].pre.file[HashOf(old)].referenceCount - 1
                /\ \A h \in Hashes :
                       db.file[h].referenceCount = Cardinality(RowsHolding(db, UuidOf(h)))

====
